---------------------------- MODULE Spec2Model ----------------------------
(***************************************************************************)
(* A model of the parallel-research pipeline: the orchestrator's research  *)
(* phase (one goroutine per (agent, variation) under an errgroup, a shared *)
(* TokenTracker and a Dashboard), and the synthesizer's selection and      *)
(* citation handling.                                                      *)
(*                                                                         *)
(* Money is counted in micro-dollars, so that the cost of a live call,     *)
(* tokens / 1_000_000 * 15.0 dollars, is the integer tokens * 15.          *)
(***************************************************************************)
EXTENDS Integers, Sequences, FiniteSets, TLC

(***************************************************************************)
(* Bounds of the model.                                                    *)
(***************************************************************************)
\* The widest fan-out explored: len(agents) * BestOfN <= MaxUnits.
MaxUnits == 2

\* TokenTracker on its own receives usage at most this many times.
MaxTrackerAdds == 3

\* extractCitations on its own is handed at most this many results.
MaxSelected == 3

\* Synthesize on its own is handed the results of at most this many units.
MaxCands == 3

\* CreateAgents on its own is called with intensities from -MaxIntensity to
\* MaxIntensity.
MaxIntensity == 20

\* SpecEssay: at most this many research results reach Synthesize.
MaxEssayResults == 2

\* SpecQuality: the longest response has this many plain words, and a
\* response has at most this many citation lines.
MaxWords == 501
MaxCitationLines == 6

(***************************************************************************)
(* pkg/agents: the catalog and CreateAgents.                               *)
(***************************************************************************)
allAgents ==
    << "fact-gatherer", "current-state", "expert-opinions", "historical-context",
       "counter-arguments", "future-projections", "case-studies", "data-analysis",
       "theoretical-framework", "practical-applications" >>

\* CreateAgents with intensity 0 taken as a length.
CreateAgentsFromZero(intensity) ==
    IF intensity < 0 THEN SubSeq(allAgents, 1, 2)
    ELSE IF intensity > Len(allAgents) THEN allAgents
    ELSE SubSeq(allAgents, 1, intensity)

CreateAgents(intensity) ==
    IF intensity <= 0 THEN SubSeq(allAgents, 1, 2)
    ELSE IF intensity > Len(allAgents) THEN allAgents
    ELSE SubSeq(allAgents, 1, intensity)

(***************************************************************************)
(* The configurations explored.                                            *)
(***************************************************************************)
\* (TokenLimit, CostLimit) pairs; 0 means unlimited.  750 micro-dollars is
\* the cost of 50 tokens.
LimitChoices == { <<0, 0>>, <<100, 0>>, <<0, 750>>, <<100, 750>> }

\* TotalTokens of the usage estimated for one live call.
Usages == {50, 100}

\* estimateTokenUsage: costPerMillion = 15.0 dollars, in micro-dollars per token.
CostPerToken == 15

\* runDemoAgent's fixed usage: TotalTokens 950, Cost 0.05 dollars.
DemoTokens == 950
DemoCost == 50000

Configs ==
    { [ DemoMode |-> d, ModelKnown |-> k, TokenLimit |-> l[1], CostLimit |-> l[2],
        Intensity |-> i, BestOfN |-> n ] :
        d \in BOOLEAN, k \in BOOLEAN, l \in LimitChoices,
        i \in 0..MaxUnits, n \in 1..MaxUnits }

VARIABLES
    config,         \* Orchestrator.config
    agents,         \* Orchestrator.agents
    phase,          \* where Execute is
    pc,             \* where each research goroutine is
    groupErr,       \* the errgroup's first non-nil error
    results,        \* conductParallelResearch's results slice
    completed,      \* conductParallelResearch's completed counter
    result,         \* each goroutine's local result
    percentage,     \* each goroutine's local percentage, as <<numerator, denominator>>
    snap,           \* each goroutine's models.Progress literal, once evaluated
    totalTokens,    \* TokenTracker.totalTokens
    totalCost,      \* TokenTracker.totalCost
    agentTokens,    \* TokenTracker.agentTokens
    agentStatuses,  \* Dashboard.agentStatuses
    progress,       \* Dashboard.progress
    lastCheck,      \* the last exceedsLimits call observed on the tracker on its own
    synStage,       \* where Synthesize is
    synResults,     \* Synthesize's results argument
    selected,       \* Synthesize's selectedResults
    perResult,      \* extractCitations: the citations found in each result
    citations,      \* Synthesize's citations
    calls,          \* how often each goroutine has issued its generation request
    runErr,         \* the error New or Execute returned, as its chain of messages
    written,        \* whether writeOutput has handed the essay to os.WriteFile
    essay,          \* the essay synthesizeResults returned, if any
    atLimit,        \* history: the moment totalTokens first reached the token limit
    locks           \* who holds mu, TokenTracker.mu and Dashboard.mu between steps

vars == << config, agents, phase, pc, groupErr, results, completed, result,
           percentage, snap, totalTokens, totalCost, agentTokens, agentStatuses,
           progress, lastCheck, synStage, synResults, selected, perResult,
           citations, calls, runErr, written, essay, atLimit, locks >>

\* The state of the orchestrator and of the synthesizer, each left alone by
\* the other's steps.
orchVars == << config, agents, phase, pc, groupErr, results, completed, result,
               percentage, snap, totalTokens, totalCost, agentTokens,
               agentStatuses, progress >>
synVars == << synStage, synResults, selected, perResult, citations >>
runVars == << calls, runErr, written, essay, atLimit, locks >>

SynIdle ==
    /\ synStage = "idle"
    /\ synResults = << >>
    /\ selected = << >>
    /\ perResult = << >>
    /\ citations = << >>

NoError == "nil"
NoCheck == [ Tokens |-> -1, Cost |-> -1, Exceeded |-> FALSE ]
NoResult == [ AgentID |-> << >>, AgentType |-> "", Tokens |-> 0, Cost |-> 0 ]
NoProgress ==
    [ Stage |-> "", Percentage |-> <<0, 1>>, ActiveAgents |-> 0,
      CompletedAgents |-> 0, TokensUsed |-> 0, EstimatedCost |-> 0 ]

\* The (i, n) pairs of the two loops of conductParallelResearch.
Units == { <<i, n>> : i \in 1..Len(agents), n \in 0..(config.BestOfN - 1) }

\* agentID := fmt.Sprintf("%s-%d-%d", agent.Type, i, n), i counted from 0.
AgentIDOf(u) == << agents[u[1]], u[1] - 1, u[2] >>

totalAgents == Len(agents) * config.BestOfN

Returned == {"skipped", "failed", "completed"}

\* No goroutine is inside a locked section.
Free == << >>
Render == << "render" >>
AllFree == [ mu |-> Free, tt |-> Free, d |-> Free ]

\* Nothing has been run yet: no request, no error, no essay, no output.
RunIdle ==
    /\ calls = [ u \in Units |-> 0 ]
    /\ runErr = << >>
    /\ written = FALSE
    /\ essay = << >>
    /\ atLimit = << >>
    /\ locks = AllFree

(***************************************************************************)
(* TokenTracker.                                                           *)
(***************************************************************************)
exceedsLimitsStrict ==
    IF config.TokenLimit > 0 /\ totalTokens > config.TokenLimit THEN TRUE
    ELSE IF config.CostLimit > 0 /\ totalCost > config.CostLimit THEN TRUE
    ELSE FALSE

exceedsLimits ==
    IF config.TokenLimit > 0 /\ totalTokens >= config.TokenLimit THEN TRUE
    ELSE IF config.CostLimit > 0 /\ totalCost >= config.CostLimit THEN TRUE
    ELSE FALSE

\* addUsage that assigns the usage to totalTokens instead of adding it.
addUsageAssigns(agentID, usage) ==
    /\ totalTokens' = usage.TotalTokens
    /\ agentTokens' =
         [ id \in DOMAIN agentTokens \cup {agentID} |->
             IF id = agentID THEN usage.TotalTokens ELSE agentTokens[id] ]
    /\ totalCost' = totalCost + usage.Cost

addUsage(agentID, usage) ==
    /\ totalTokens' = totalTokens + usage.TotalTokens
    /\ agentTokens' =
         [ id \in DOMAIN agentTokens \cup {agentID} |->
             IF id = agentID THEN usage.TotalTokens ELSE agentTokens[id] ]
    /\ totalCost' = totalCost + usage.Cost

estimateTokenUsage(tokens) ==
    [ TotalTokens |-> tokens, Cost |-> tokens * CostPerToken ]

(***************************************************************************)
(* Dashboard.                                                              *)
(***************************************************************************)
\* time.Now() inside UpdateAgent is kept as the status that update delivered;
\* the zero time is "".
ZeroAgentStatus ==
    [ Type |-> "", Status |-> "", Tokens |-> 0, StartTime |-> "", EndTime |-> "" ]

\* UpdateAgent taking a new StartTime at every update.
UpdateAgentRestarts(agentID, agentType, status, tokens) ==
    LET agent == IF agentID \in DOMAIN agentStatuses
                 THEN agentStatuses[agentID] ELSE ZeroAgentStatus
        new   == [ Type |-> agentType, Status |-> status, Tokens |-> tokens,
                   StartTime |-> status,
                   EndTime |-> IF status \in {"completed", "failed"}
                               THEN status ELSE agent.EndTime ]
    IN  agentStatuses' =
          [ id \in DOMAIN agentStatuses \cup {agentID} |->
              IF id = agentID THEN new ELSE agentStatuses[id] ]

UpdateAgent(agentID, agentType, status, tokens) ==
    LET agent == IF agentID \in DOMAIN agentStatuses
                 THEN agentStatuses[agentID] ELSE ZeroAgentStatus
        new   == [ Type |-> agentType, Status |-> status, Tokens |-> tokens,
                   StartTime |-> IF agent.StartTime = "" THEN status
                                 ELSE agent.StartTime,
                   EndTime |-> IF status \in {"completed", "failed"}
                               THEN status ELSE agent.EndTime ]
    IN  agentStatuses' =
          [ id \in DOMAIN agentStatuses \cup {agentID} |->
              IF id = agentID THEN new ELSE agentStatuses[id] ]

UpdateProgress(p) == progress' = p

(***************************************************************************)
(* The errgroup: the first non-nil error returned by a goroutine is kept   *)
(* and cancels the group's context.                                        *)
(***************************************************************************)
GoReturn(err) == groupErr' = IF groupErr = NoError THEN err ELSE groupErr

ctxCancelled == groupErr # NoError

\* What the goroutine returns after a failed runAgent.
FailReturnErr == "request failed"

FailReturn == NoError

\* g.Wait() returns once every goroutine has returned.
AllReturnedAny == \E u \in Units : pc[u] \in Returned

AllReturned == \A u \in Units : pc[u] \in Returned

(***************************************************************************)
(* Orchestrator.Execute and conductParallelResearch.                       *)
(***************************************************************************)
Init ==
    /\ config \in Configs
    /\ agents = CreateAgents(config.Intensity)
    /\ Len(agents) * config.BestOfN <= MaxUnits
    /\ phase = "new"
    /\ pc = [ u \in Units |-> "idle" ]
    /\ groupErr = NoError
    /\ results = << >>
    /\ completed = 0
    /\ result = [ u \in Units |-> NoResult ]
    /\ percentage = [ u \in Units |-> <<0, 1>> ]
    /\ snap = [ u \in Units |-> NoProgress ]
    /\ totalTokens = 0
    /\ totalCost = 0
    /\ agentTokens = << >>
    /\ agentStatuses = << >>
    /\ progress = NoProgress
    /\ lastCheck = NoCheck
    /\ SynIdle
    /\ RunIdle

\* orchestrator.New returns the orchestrator; runResearch calls Execute.
New ==
    /\ phase = "new"
    /\ phase' = "execute"
    /\ UNCHANGED << config, agents, pc, groupErr, results, completed, result,
                    percentage, snap, totalTokens, totalCost, agentTokens,
                    agentStatuses, progress, lastCheck, synVars, runVars >>

\* anthrogo.NewClient fails (live mode only), and the goroutines start anyway.
NewFailsAndGoesOn ==
    /\ phase = "new" /\ ~config.DemoMode
    /\ phase' = "research"
    /\ pc' = [ u \in Units |-> "start" ]
    /\ runErr' = << "failed to create anthrogo client" >>
    /\ UNCHANGED << config, agents, groupErr, results, completed, result,
                    percentage, snap, totalTokens, totalCost, agentTokens,
                    agentStatuses, progress, lastCheck, synVars, calls, written,
                    essay, atLimit, locks >>

\* anthrogo.NewClient fails (live mode only): New returns the error and
\* runResearch exits without calling Execute.
NewFails ==
    /\ phase = "new" /\ ~config.DemoMode
    /\ phase' = "failed"
    /\ runErr' = << "failed to create anthrogo client" >>
    /\ UNCHANGED << config, agents, pc, groupErr, results, completed, result,
                    percentage, snap, totalTokens, totalCost, agentTokens,
                    agentStatuses, progress, lastCheck, synVars, calls, written,
                    essay, atLimit, locks >>

\* os.MkdirTemp succeeds and the loops launch every goroutine.
Launch ==
    /\ phase = "execute"
    /\ phase' = "research"
    /\ pc' = [ u \in Units |-> "start" ]
    /\ UNCHANGED << config, agents, groupErr, results, completed, result,
                    percentage, snap, totalTokens, totalCost, agentTokens,
                    agentStatuses, progress, lastCheck, synVars, runVars >>

\* os.MkdirTemp fails: conductParallelResearch returns the error, Execute fails.
LaunchFails ==
    /\ phase = "execute"
    /\ phase' = "failed"
    /\ runErr' = << "research phase failed", "MkdirTemp" >>
    /\ UNCHANGED << config, agents, pc, groupErr, results, completed, result,
                    percentage, snap, totalTokens, totalCost, agentTokens,
                    agentStatuses, progress, lastCheck, synVars, calls, written,
                    essay, atLimit, locks >>

\* o.dashboard.UpdateAgent(agentID, type, "running", 0)
ReportRunning(u) ==
    /\ pc[u] = "start"
    /\ UpdateAgent(AgentIDOf(u), agents[u[1]], "running", 0)
    /\ pc' = [pc EXCEPT ![u] = "check"]
    /\ UNCHANGED << config, agents, phase, groupErr, results, completed, result,
                    percentage, snap, totalTokens, totalCost, agentTokens,
                    progress, lastCheck, synVars, runVars >>

\* The pre-check with a skip that is reported as a failure.
PreCheckSkipFails(u) ==
    /\ pc[u] = "check"
    /\ IF exceedsLimits
       THEN /\ pc' = [pc EXCEPT ![u] = "skipped"]
            /\ UpdateAgent(AgentIDOf(u), agents[u[1]], "failed", 0)
            /\ GoReturn(NoError)
       ELSE /\ pc' = [pc EXCEPT ![u] = "ready"]
            /\ UNCHANGED << groupErr, agentStatuses >>
    /\ UNCHANGED << config, agents, phase, results, completed, result,
                    percentage, snap, totalTokens, totalCost, agentTokens,
                    progress, lastCheck, synVars, runVars >>

\* The pre-check that lets every unit pass.
PreCheckAlwaysPasses(u) ==
    /\ pc[u] = "check"
    /\ pc' = [pc EXCEPT ![u] = "ready"]
    /\ UNCHANGED << config, agents, phase, groupErr, results, completed, result,
                    percentage, snap, totalTokens, totalCost, agentTokens,
                    agentStatuses, progress, lastCheck, synVars, runVars >>

\* if o.tokenTracker.exceedsLimits() { ...; return nil }
PreCheck(u) ==
    /\ pc[u] = "check"
    /\ IF exceedsLimits
       THEN pc' = [pc EXCEPT ![u] = "skipped"] /\ GoReturn(NoError)
       ELSE pc' = [pc EXCEPT ![u] = "ready"] /\ UNCHANGED groupErr
    /\ UNCHANGED << config, agents, phase, results, completed, result,
                    percentage, snap, totalTokens, totalCost, agentTokens,
                    agentStatuses, progress, lastCheck, synVars, runVars >>

\* runAgent up to the point where the generation is under way: the demo
\* generation, or getModel and the MessageRequest being sent.
StartCall(u) ==
    /\ pc[u] = "ready"
    /\ IF config.DemoMode \/ config.ModelKnown
       THEN /\ pc' = [pc EXCEPT ![u] = "calling"]
            /\ calls' = [calls EXCEPT ![u] = @ + 1]
            /\ UNCHANGED << groupErr, agentStatuses >>
       ELSE \* getModel: unknown model; the goroutine reports failed and returns
            /\ UNCHANGED calls
            /\ UpdateAgent(AgentIDOf(u), agents[u[1]], "failed", 0)
            /\ GoReturn(FailReturn)
            /\ pc' = [pc EXCEPT ![u] = "failed"]
    /\ UNCHANGED << config, agents, phase, results, completed, result,
                    percentage, snap, totalTokens, totalCost, agentTokens,
                    progress, lastCheck, synVars, runErr, written, essay, atLimit, locks >>

\* runDemoAgent returns its result; the tracker is not told.
DemoReturns(u) ==
    /\ pc[u] = "calling" /\ config.DemoMode
    /\ result' = [result EXCEPT ![u] =
                    [ AgentID |-> AgentIDOf(u), AgentType |-> agents[u[1]],
                      Tokens |-> DemoTokens, Cost |-> DemoCost ]]
    /\ pc' = [pc EXCEPT ![u] = "returned"]
    /\ UNCHANGED << config, agents, phase, groupErr, results, completed,
                    percentage, snap, totalTokens, totalCost, agentTokens,
                    agentStatuses, progress, lastCheck, synVars, runVars >>

\* The units that have passed the pre-check and not yet recorded a usage.
InFlight == { u \in Units : pc[u] \in {"ready", "calling"} }

\* This step's addUsage brings totalTokens to the token limit.
ReachesTokenLimit ==
    /\ config.TokenLimit > 0
    /\ totalTokens < config.TokenLimit
    /\ totalTokens' >= config.TokenLimit

\* What is remembered of that moment: the unit whose usage was added, the
\* total it left, and the units in flight besides it.
MomentOf(u) ==
    [ by |-> u, total |-> totalTokens', inFlight |-> InFlight \ {u} ]

\* MessageRequest answers; runClaudeAgent estimates the usage, adds it to the
\* tracker and returns its result.
CallReturns(u) ==
    /\ pc[u] = "calling" /\ ~config.DemoMode
    /\ ~ctxCancelled
    /\ \E tokens \in Usages :
         LET tokensUsed == estimateTokenUsage(tokens) IN
         /\ addUsage(AgentIDOf(u), tokensUsed)
         /\ result' = [result EXCEPT ![u] =
                         [ AgentID |-> AgentIDOf(u), AgentType |-> agents[u[1]],
                           Tokens |-> tokensUsed.TotalTokens,
                           Cost |-> tokensUsed.Cost ]]
    /\ pc' = [pc EXCEPT ![u] = "returned"]
    /\ atLimit' = IF atLimit = << >> /\ ReachesTokenLimit THEN << MomentOf(u) >>
                  ELSE atLimit
    /\ UNCHANGED << config, agents, phase, groupErr, results, completed,
                    percentage, snap, agentStatuses, progress, lastCheck, synVars,
                    calls, runErr, written, essay, locks >>

\* MessageRequest fails: the goroutine reports failed and returns.
CallFailsFallsThrough(u) ==
    /\ pc[u] = "calling" /\ ~config.DemoMode
    /\ UpdateAgent(AgentIDOf(u), agents[u[1]], "failed", 0)
    /\ pc' = [pc EXCEPT ![u] = "returned"]
    /\ UNCHANGED << config, agents, phase, groupErr, results, completed, result,
                    percentage, snap, totalTokens, totalCost, agentTokens,
                    progress, lastCheck, synVars, runVars >>

\* MessageRequest fails and runAgent is called once more.
CallFailsRetries(u) ==
    /\ pc[u] = "calling" /\ ~config.DemoMode
    /\ pc' = [pc EXCEPT ![u] = "ready"]
    /\ UNCHANGED << config, agents, phase, groupErr, results, completed, result,
                    percentage, snap, totalTokens, totalCost, agentTokens,
                    agentStatuses, progress, lastCheck, synVars, runVars >>

CallFails(u) ==
    /\ pc[u] = "calling" /\ ~config.DemoMode
    /\ UpdateAgent(AgentIDOf(u), agents[u[1]], "failed", 0)
    /\ GoReturn(FailReturn)
    /\ pc' = [pc EXCEPT ![u] = "failed"]
    /\ UNCHANGED << config, agents, phase, results, completed, result,
                    percentage, snap, totalTokens, totalCost, agentTokens,
                    progress, lastCheck, synVars, runVars >>

\* mu.Lock(); results = append(results, result); completed++; percentage := ...
AppendResult(u) ==
    /\ pc[u] = "returned"
    /\ results' = Append(results, result[u])
    /\ completed' = completed + 1
    /\ percentage' = [percentage EXCEPT ![u] =
                        << (completed + 1) * 60 + 10 * totalAgents, totalAgents >>]
    /\ pc' = [pc EXCEPT ![u] = "appended"]
    /\ UNCHANGED << config, agents, phase, groupErr, result, snap, totalTokens,
                    totalCost, agentTokens, agentStatuses, progress, lastCheck, synVars, runVars >>

\* The models.Progress literal is evaluated: completed and the tracker's
\* counters are read with no lock held.
BuildProgress(u) ==
    /\ pc[u] = "appended"
    /\ snap' = [snap EXCEPT ![u] =
                  [ Stage |-> "research", Percentage |-> percentage[u],
                    ActiveAgents |-> totalAgents - completed,
                    CompletedAgents |-> completed,
                    TokensUsed |-> totalTokens, EstimatedCost |-> totalCost ]]
    /\ pc' = [pc EXCEPT ![u] = "built"]
    /\ UNCHANGED << config, agents, phase, groupErr, results, completed, result,
                    percentage, totalTokens, totalCost, agentTokens,
                    agentStatuses, progress, lastCheck, synVars, runVars >>

\* o.updateProgress(...) -> Dashboard.UpdateProgress
StoreProgress(u) ==
    /\ pc[u] = "built"
    /\ UpdateProgress(snap[u])
    /\ pc' = [pc EXCEPT ![u] = "stored"]
    /\ UNCHANGED << config, agents, phase, groupErr, results, completed, result,
                    percentage, snap, totalTokens, totalCost, agentTokens,
                    agentStatuses, lastCheck, synVars, runVars >>

\* o.dashboard.UpdateAgent(agentID, type, "completed", tokens); return nil
ReportCompleted(u) ==
    /\ pc[u] = "stored"
    /\ UpdateAgent(AgentIDOf(u), agents[u[1]], "completed", result[u].Tokens)
    /\ GoReturn(NoError)
    /\ pc' = [pc EXCEPT ![u] = "completed"]
    /\ UNCHANGED << config, agents, phase, results, completed, result,
                    percentage, snap, totalTokens, totalCost, agentTokens,
                    progress, lastCheck, synVars, runVars >>

\* if err := g.Wait(); err != nil { return nil, err }; return results, nil
Join ==
    /\ phase = "research" /\ AllReturned
    /\ IF groupErr # NoError
       THEN /\ phase' = "failed"
            /\ runErr' = << "research phase failed", groupErr >>
       ELSE /\ phase' = "synthesis"
            /\ UNCHANGED runErr
    /\ UNCHANGED << config, agents, pc, groupErr, results, completed, result,
                    percentage, snap, totalTokens, totalCost, agentTokens,
                    agentStatuses, progress, lastCheck, synVars, calls, written,
                    essay, atLimit, locks >>

\* The essay Synthesize returns, as far as its metadata goes.
NewEssay(rs) ==
    [ AgentsUsed |-> Cardinality({ rs[k].AgentType : k \in 1..Len(rs) }),
      TotalVariations |-> Len(rs) ]

\* o.synthesizeResults(researchResults) succeeds, but only for a results list
\* that is not empty.
SynthesisDoneIfAny ==
    /\ phase = "synthesis" /\ Len(results) > 0
    /\ phase' = "output"
    /\ essay' = << NewEssay(results) >>
    /\ UNCHANGED << config, agents, pc, groupErr, results, completed, result,
                    percentage, snap, totalTokens, totalCost, agentTokens,
                    agentStatuses, progress, lastCheck, synVars, calls, runErr,
                    written, atLimit, locks >>

\* o.synthesizeResults(researchResults) succeeds.
SynthesisDone ==
    /\ phase = "synthesis"
    /\ phase' = "output"
    /\ essay' = << NewEssay(results) >>
    /\ UNCHANGED << config, agents, pc, groupErr, results, completed, result,
                    percentage, snap, totalTokens, totalCost, agentTokens,
                    agentStatuses, progress, lastCheck, synVars, calls, runErr,
                    written, atLimit, locks >>

\* runSynthesis fails (live mode only), and Execute goes on to writeOutput.
SynthesisFailsAndGoesOn ==
    /\ phase = "synthesis" /\ ~config.DemoMode
    /\ phase' = "output"
    /\ runErr' = << "synthesis phase failed", "synthesis failed" >>
    /\ UNCHANGED << config, agents, pc, groupErr, results, completed, result,
                    percentage, snap, totalTokens, totalCost, agentTokens,
                    agentStatuses, progress, lastCheck, synVars, calls, written,
                    essay, atLimit, locks >>

\* runSynthesis fails (live mode only: the claude command): Synthesize and
\* synthesizeResults return the error, Execute returns it wrapped.
SynthesisFails ==
    /\ phase = "synthesis" /\ ~config.DemoMode
    /\ phase' = "failed"
    /\ runErr' = << "synthesis phase failed", "synthesis failed" >>
    /\ UNCHANGED << config, agents, pc, groupErr, results, completed, result,
                    percentage, snap, totalTokens, totalCost, agentTokens,
                    agentStatuses, progress, lastCheck, synVars, calls, written,
                    essay, atLimit, locks >>

\* writeOutput formats the essay and os.WriteFile writes it; Execute returns nil.
WriteOutput ==
    /\ phase = "output"
    /\ phase' = "done"
    /\ written' = TRUE
    /\ UNCHANGED << config, agents, pc, groupErr, results, completed, result,
                    percentage, snap, totalTokens, totalCost, agentTokens,
                    agentStatuses, progress, lastCheck, synVars, calls, runErr,
                    essay, atLimit, locks >>

\* writeOutput fails: in GetFormatter or Format, before os.WriteFile is
\* called, or in os.WriteFile itself.
WriteOutputFails ==
    /\ phase = "output"
    /\ phase' = "failed"
    /\ \E called \in BOOLEAN : written' = called
    /\ runErr' = << "output phase failed" >>
    /\ UNCHANGED << config, agents, pc, groupErr, results, completed, result,
                    percentage, snap, totalTokens, totalCost, agentTokens,
                    agentStatuses, progress, lastCheck, synVars, calls, essay, atLimit, locks >>

Next ==
    \/ New
    \/ NewFails
    \/ Launch
    \/ LaunchFails
    \/ \E u \in Units : ReportRunning(u)
    \/ \E u \in Units : PreCheck(u)
    \/ \E u \in Units : StartCall(u)
    \/ \E u \in Units : DemoReturns(u)
    \/ \E u \in Units : CallReturns(u)
    \/ \E u \in Units : CallFails(u)
    \/ \E u \in Units : AppendResult(u)
    \/ \E u \in Units : BuildProgress(u)
    \/ \E u \in Units : StoreProgress(u)
    \/ \E u \in Units : ReportCompleted(u)
    \/ Join
    \/ SynthesisDone
    \/ SynthesisFails
    \/ WriteOutput
    \/ WriteOutputFails

Spec == Init /\ [][Next]_vars

(***************************************************************************)
(* The research phase: what is claimed of it.                              *)
(***************************************************************************)
\* The budget is exceeded, as the spec's data model states it.
BudgetExceeded ==
    \/ config.TokenLimit > 0 /\ totalTokens >= config.TokenLimit
    \/ config.CostLimit > 0 /\ totalCost >= config.CostLimit

\* The units whose generation call returned a response.
Succeeded == { u \in Units : pc[u] \in {"returned", "appended", "built", "stored", "completed"} }

\* The units whose candidate is in the results slice.
Appended == { u \in Units : pc[u] \in {"appended", "built", "stored", "completed"} }

RECURSIVE SumTokens(_)
SumTokens(rs) == IF rs = << >> THEN 0 ELSE Head(rs).Tokens + SumTokens(Tail(rs))

ResultIDs == { results[k].AgentID : k \in 1..Len(results) }

\* conductParallelResearch returned an error.
ResearchFailed == runErr # << >> /\ runErr[1] = "research phase failed"

\* C1: once the budget is exceeded, no unit that has not yet started its
\* external generation call starts it afterwards.
C1_NoCallStartsOnceExceeded ==
    [][ \A u \in Units :
          (pc[u] \in {"start", "check", "ready"} /\ pc'[u] = "calling")
             => ~BudgetExceeded ]_vars

\* C3: every unit that received a response, in live and in demo mode alike,
\* has its usage recorded in the tracker before its candidate is returned; so
\* after the join totalTokens is the sum of the usage of the returned candidates.
C3_UsageRecordedForEveryCandidate ==
    /\ \A u \in Succeeded :
         /\ AgentIDOf(u) \in DOMAIN agentTokens
         /\ agentTokens[AgentIDOf(u)] = result[u].Tokens
    /\ phase = "synthesis" => totalTokens = SumTokens(results)

\* C4: synthesis starts only after every unit has completed, failed or been
\* skipped, and the results slice is never appended to once synthesis started.
C4_SynthesisAfterFullJoin ==
    [][ /\ phase' \in {"synthesis", "output"}
            => \A u \in Units : pc'[u] \in {"completed", "failed", "skipped"}
        /\ phase \in {"synthesis", "output"} => results' = results ]_vars

C4_Witness ==
    /\ phase = "synthesis"
    /\ Cardinality(Units) >= 2
    /\ Len(results) >= 1
    /\ \E u \in Units : pc[u] \in {"failed", "skipped"}

\* C5: a unit whose request failed is marked failed and contributes no
\* candidate; no sibling is cancelled or kept from completing; the research
\* phase returns without error with the candidates of the units that succeeded.
C5_FailSoftIsolation ==
    (\E f \in Units : pc[f] = "failed") =>
        /\ \A f \in Units : pc[f] = "failed" =>
             /\ agentStatuses[AgentIDOf(f)].Status = "failed"
             /\ AgentIDOf(f) \notin ResultIDs
        /\ ~ctxCancelled
        /\ \A v \in Units : pc[v] = "calling" => ENABLED CallReturns(v)
        /\ ~ResearchFailed
        /\ phase \in {"synthesis", "output"} =>
             ResultIDs = { AgentIDOf(u) : u \in { v \in Units : pc[v] = "completed" } }

C5_Witness ==
    /\ phase = "synthesis"
    /\ \E f \in Units : pc[f] = "failed"
    /\ \E u \in Units : pc[u] = "completed" /\ AgentIDOf(u) \in ResultIDs

\* C6: the results slice holds exactly one candidate for each unit whose call
\* succeeded, attributed to its own (agent, variation), and nothing else; the
\* completed counter is the length of the slice.
C6_ResultsExactlySucceeded ==
    /\ completed = Len(results)
    /\ Len(results) = Cardinality(Appended)
    /\ \A k \in 1..Len(results) :
         \E u \in Appended :
            /\ results[k] = result[u]
            /\ results[k].AgentID = AgentIDOf(u)
            /\ results[k].AgentType = agents[u[1]]
    /\ \A u \in Appended :
         Cardinality({ k \in 1..Len(results) : results[k].AgentID = AgentIDOf(u) }) = 1
    /\ phase \in {"synthesis", "output"} => Appended = Succeeded

C6_Witness ==
    /\ phase = "synthesis"
    /\ Len(results) = 2
    /\ results[1].AgentID = AgentIDOf(<<1, 1>>)
    /\ results[2].AgentID = AgentIDOf(<<1, 0>>)

(***************************************************************************)
(* The TokenTracker on its own: usage is added call by call and            *)
(* exceedsLimits is asked in between.                                      *)
(***************************************************************************)
TrackerLimitChoices == { <<0, 0>>, <<100, 0>>, <<0, 1500>>, <<100, 1500>> }

TrackerUsages ==
    { [ TotalTokens |-> t, Cost |-> c ] : t \in {1, 49, 50}, c \in {0, 750} }

TrackerInit ==
    /\ config \in { [ DemoMode |-> FALSE, ModelKnown |-> TRUE, TokenLimit |-> l[1],
                      CostLimit |-> l[2], Intensity |-> 1, BestOfN |-> 1 ] :
                      l \in TrackerLimitChoices }
    /\ agents = CreateAgents(config.Intensity)
    /\ phase = "execute"
    /\ pc = [ u \in Units |-> "idle" ]
    /\ groupErr = NoError
    /\ results = << >>
    /\ completed = 0
    /\ result = [ u \in Units |-> NoResult ]
    /\ percentage = [ u \in Units |-> <<0, 1>> ]
    /\ snap = [ u \in Units |-> NoProgress ]
    /\ totalTokens = 0
    /\ totalCost = 0
    /\ agentTokens = << >>
    /\ agentStatuses = << >>
    /\ progress = NoProgress
    /\ lastCheck = NoCheck
    /\ SynIdle
    /\ RunIdle

TrackerAdd ==
    /\ Cardinality(DOMAIN agentTokens) < MaxTrackerAdds
    /\ \E usage \in TrackerUsages :
         addUsage(<< "agent", Cardinality(DOMAIN agentTokens) >>, usage)
    /\ UNCHANGED << config, agents, phase, pc, groupErr, results, completed,
                    result, percentage, snap, agentStatuses, progress, lastCheck, synVars, runVars >>

TrackerCheck ==
    /\ lastCheck' = [ Tokens |-> totalTokens, Cost |-> totalCost,
                      Exceeded |-> exceedsLimits ]
    /\ UNCHANGED << config, agents, phase, pc, groupErr, results, completed,
                    result, percentage, snap, totalTokens, totalCost, agentTokens,
                    agentStatuses, progress, synVars, runVars >>

TrackerNext == TrackerAdd \/ TrackerCheck

SpecTracker == TrackerInit /\ [][TrackerNext]_vars

\* C2: exceedsLimits is true exactly when a positive token limit is reached
\* or a positive cost limit is reached: with a token limit of 100 alone it is
\* false at 99 tokens and true at 100, and a limit of 0 never triggers.
C2_ExceedsExactlyAtLimit ==
    lastCheck # NoCheck =>
        /\ lastCheck.Exceeded <=>
             \/ config.TokenLimit > 0 /\ lastCheck.Tokens >= config.TokenLimit
             \/ config.CostLimit > 0 /\ lastCheck.Cost >= config.CostLimit
        /\ (config.TokenLimit = 100 /\ config.CostLimit = 0 /\ lastCheck.Tokens = 99)
             => ~lastCheck.Exceeded
        /\ (config.TokenLimit = 100 /\ lastCheck.Tokens = 100) => lastCheck.Exceeded
        /\ (config.TokenLimit = 0 /\ config.CostLimit = 0) => ~lastCheck.Exceeded
        /\ (config.TokenLimit = 0 /\ lastCheck.Cost < config.CostLimit)
             => ~lastCheck.Exceeded
        /\ (config.CostLimit = 0 /\ lastCheck.Tokens < config.TokenLimit)
             => ~lastCheck.Exceeded

\* The check at 99 tokens said no, one more token was added, and the limit of
\* 100 is now reached.
C2_Witness ==
    /\ config.TokenLimit = 100 /\ config.CostLimit = 0
    /\ lastCheck.Tokens = 99 /\ ~lastCheck.Exceeded
    /\ totalTokens = 100 /\ exceedsLimits

(***************************************************************************)
(* Strings.  A Go string is modelled as the sequence of its characters     *)
(* (all ASCII here, so len() is Len).                                      *)
(***************************************************************************)
Lower == { "a", "b", "c", "d", "e", "f", "g", "h", "i", "j", "k", "l", "m",
           "n", "o", "p", "q", "r", "s", "t", "u", "v", "w", "x", "y", "z" }
Upper == { "A", "B", "C", "D", "E", "F", "G", "H", "I", "J", "K", "L", "M",
           "N", "O", "P", "Q", "R", "S", "T", "U", "V", "W", "X", "Y", "Z" }
Digit == { "0", "1", "2", "3", "4", "5", "6", "7", "8", "9" }
\* The regexp class \s: [\t\n\f\r ].
Space == { " ", "\t", "\n", "\f", "\r" }

\* The index of the first c in s at or after from, 0 if there is none.
IndexFrom(s, c, from) ==
    LET S == { j \in from..Len(s) : s[j] = c }
    IN  IF S = {} THEN 0 ELSE CHOOSE j \in S : \A k \in S : j <= k

\* The last index of the longest run of characters of Class starting at from
\* (from - 1 if the run is empty).
RunEnd(s, from, Class) ==
    LET S == { j \in from..Len(s) : s[j] \notin Class }
    IN  IF S = {} THEN Len(s) ELSE (CHOOSE j \in S : \A k \in S : j <= k) - 1

\* strings.Count(s, sub) for a sub that cannot overlap itself.
Count(s, sub) ==
    Cardinality({ i \in 1..(Len(s) - Len(sub) + 1) :
                    SubSeq(s, i, i + Len(sub) - 1) = sub })

NoMatch == [ ok |-> FALSE, end |-> 0, groups |-> << >> ]

(***************************************************************************)
(* pkg/synthesis: citations.                                               *)
(***************************************************************************)
\* linkPattern \[([^\]]+)\]\(([^\)]+)\) matched at position i.
linkMatchAt(s, i) ==
    LET j == IndexFrom(s, "]", i + 1) IN
    IF s[i] # "[" \/ j = 0 \/ j = i + 1 \/ j + 1 > Len(s) \/ s[j + 1] # "("
    THEN NoMatch
    ELSE LET k == IndexFrom(s, ")", j + 2) IN
         IF k = 0 \/ k = j + 2
         THEN NoMatch
         ELSE [ ok |-> TRUE, end |-> k,
                groups |-> << SubSeq(s, i + 1, j - 1), SubSeq(s, j + 2, k - 1) >> ]

\* citationPattern \(([A-Za-z\s&]+),\s*(\d{4})\) matched at position i.
academicMatchAt(s, i) ==
    LET a == RunEnd(s, i + 1, Lower \cup Upper \cup Space \cup {"&"}) IN
    IF s[i] # "(" \/ a < i + 1 \/ a + 1 > Len(s) \/ s[a + 1] # ","
    THEN NoMatch
    ELSE LET w == RunEnd(s, a + 2, Space) IN
         IF \/ w + 5 > Len(s)
            \/ \E d \in 1..4 : s[w + d] \notin Digit
            \/ s[w + 5] # ")"
         THEN NoMatch
         ELSE [ ok |-> TRUE, end |-> w + 5,
                groups |-> << SubSeq(s, i + 1, a), SubSeq(s, w + 1, w + 4) >> ]

\* FindAllStringSubmatch(content, -1): the leftmost matches, none overlapping.
RECURSIVE findAllLinks(_, _)
findAllLinks(s, i) ==
    IF i > Len(s) THEN << >>
    ELSE LET m == linkMatchAt(s, i) IN
         IF m.ok THEN << m.groups >> \o findAllLinks(s, m.end + 1)
         ELSE findAllLinks(s, i + 1)

RECURSIVE findAllAcademic(_, _)
findAllAcademic(s, i) ==
    IF i > Len(s) THEN << >>
    ELSE LET m == academicMatchAt(s, i) IN
         IF m.ok THEN << m.groups >> \o findAllAcademic(s, m.end + 1)
         ELSE findAllAcademic(s, i + 1)

\* fmt.Sprintf("cite%d", n) and fmt.Sprintf("acad%d", n), kept as a pair.
citeID(n) == << "cite", n >>
acadID(n) == << "acad", n >>

extractCitationsFromContentZeroBased(content) ==
    LET matches == findAllLinks(content, 1)
        academicMatches == findAllAcademic(content, 1)
    IN  [ i \in 1..Len(matches) |->
            [ ID |-> citeID(i - 1), Source |-> matches[i][1], URL |-> matches[i][2],
              Title |-> << >>, Authors |-> << >>, Date |-> << >> ] ]
        \o
        [ i \in 1..Len(academicMatches) |->
            [ ID |-> acadID(i - 1), Source |-> academicMatches[i][1] \o << " ", "(" >>
                                              \o academicMatches[i][2] \o << ")" >>,
              URL |-> << >>, Title |-> << >>,
              Authors |-> << academicMatches[i][1] >>,
              Date |-> academicMatches[i][2] ] ]

extractCitationsFromContent(content) ==
    LET matches == findAllLinks(content, 1)
        academicMatches == findAllAcademic(content, 1)
    IN  [ i \in 1..Len(matches) |->
            [ ID |-> citeID(i), Source |-> matches[i][1], URL |-> matches[i][2],
              Title |-> << >>, Authors |-> << >>, Date |-> << >> ] ]
        \o
        [ i \in 1..Len(academicMatches) |->
            [ ID |-> acadID(i), Source |-> academicMatches[i][1] \o << " ", "(" >>
                                          \o academicMatches[i][2] \o << ")" >>,
              URL |-> << >>, Title |-> << >>,
              Authors |-> << academicMatches[i][1] >>,
              Date |-> academicMatches[i][2] ] ]

\* The inner loop of extractCitations without citationMap[key] = true.
RECURSIVE dedupeIntoForgetful(_, _, _)
dedupeIntoForgetful(all, citationMap, cs) ==
    IF cs = << >> THEN [ all |-> all, citationMap |-> citationMap ]
    ELSE LET citation == Head(cs)
             key == citation.Source \o citation.URL
         IN  IF key \notin citationMap
             THEN dedupeIntoForgetful(Append(all, citation), citationMap, Tail(cs))
             ELSE dedupeIntoForgetful(all, citationMap, Tail(cs))

\* The inner loop of extractCitations: cs is appended to all, skipping every
\* citation whose key is already in citationMap.
RECURSIVE dedupeInto(_, _, _)
dedupeInto(all, citationMap, cs) ==
    IF cs = << >> THEN [ all |-> all, citationMap |-> citationMap ]
    ELSE LET citation == Head(cs)
             key == citation.Source \o citation.URL
         IN  IF key \notin citationMap
             THEN dedupeInto(Append(all, citation), citationMap \cup {key}, Tail(cs))
             ELSE dedupeInto(all, citationMap, Tail(cs))

RECURSIVE extractCitationsLoop(_, _, _)
extractCitationsLoop(all, citationMap, rs) ==
    IF rs = << >> THEN all
    ELSE LET next == dedupeInto(all, citationMap,
                                extractCitationsFromContent(Head(rs).Content))
         IN  extractCitationsLoop(next.all, next.citationMap, Tail(rs))

extractCitations(rs) == extractCitationsLoop(<< >>, {}, rs)

(***************************************************************************)
(* The citation extractor on its own: selected results are drawn text by   *)
(* text and extractCitations is applied to them.                           *)
(***************************************************************************)
FooLink == << "[", "F", "o", "o", "]", "(", "h", "t", "t", "p", ":", "/", "/", "x", ")" >>

CiteTexts ==
    { FooLink,
      << >>,
      << "[", "a", "]", "(", "b", "c", ")" >>,
      << "[", "a", "b", "]", "(", "c", ")" >>,
      << "(", "A", ",", " ", "2", "0", "2", "0", ")" >>,
      << "(", "A", ",", " ", "2", "0", "2", "0", ")", "[", "a", "]", "(", "b", "c", ")" >>,
      << "[", "a", "]", "(", "b", "c", ")", "[", "a", "b", "]", "(", "c", ")" >>,
      << "[", "]", "(", "x", ")", "[", "a", "]", "(", "b", "c" >>,
      << "(", "A", "1", ",", " ", "2", "0", "2", "0", ")", "(", "A", ",", " ", "2", "0", ")" >>,
      << "[", "x", "[", "a", "]", "(", "b", "c", ")" >>,
      << "[", "(", "A", " ", "&", " ", "B", ",", "2", "0", "2", "1", ")", "]", "(", "u", ")" >> }

\* The selected result of the k-th agent type, with the given content.
SelectedResult(k, content) ==
    [ AgentID |-> << allAgents[k], k - 1, 0 >>, AgentType |-> allAgents[k],
      Content |-> content, Score |-> 0 ]

CiteInit ==
    /\ config = [ DemoMode |-> FALSE, ModelKnown |-> TRUE, TokenLimit |-> 0,
                  CostLimit |-> 0, Intensity |-> MaxSelected, BestOfN |-> 1 ]
    /\ agents = CreateAgents(config.Intensity)
    /\ phase = "synthesis"
    /\ pc = [ u \in Units |-> "completed" ]
    /\ groupErr = NoError
    /\ results = << >>
    /\ completed = 0
    /\ result = [ u \in Units |-> NoResult ]
    /\ percentage = [ u \in Units |-> <<0, 1>> ]
    /\ snap = [ u \in Units |-> NoProgress ]
    /\ totalTokens = 0
    /\ totalCost = 0
    /\ agentTokens = << >>
    /\ agentStatuses = << >>
    /\ progress = NoProgress
    /\ lastCheck = NoCheck
    /\ synStage = "selected"
    /\ synResults = << >>
    /\ selected = << >>
    /\ perResult = << >>
    /\ citations = << >>
    /\ RunIdle

\* One more selected result arrives in selectedResults.
CiteSelect ==
    /\ synStage = "selected"
    /\ Len(selected) < MaxSelected
    /\ \E content \in CiteTexts :
         selected' = Append(selected, SelectedResult(Len(selected) + 1, content))
    /\ UNCHANGED << orchVars, runVars, lastCheck, synStage, synResults, perResult, citations >>

\* citations := s.extractCitations(selectedResults)
CiteExtract ==
    /\ synStage = "selected"
    /\ synStage' = "extracted"
    /\ perResult' = [ k \in 1..Len(selected) |->
                        extractCitationsFromContent(selected[k].Content) ]
    /\ citations' = extractCitations(selected)
    /\ UNCHANGED << orchVars, runVars, lastCheck, synResults, selected >>

CiteNext == CiteSelect \/ CiteExtract

SpecCite == CiteInit /\ [][CiteNext]_vars

(***************************************************************************)
(* Claims about citation extraction and deduplication.                     *)
(***************************************************************************)
\* The places <<i, j, k>> of a text where the bracketed-link form stands:
\* "[" at i, a non-empty label without "]", "](" at j, a non-empty target
\* without ")", and ")" at k.
LinkSpans(s) ==
    UNION { UNION { { << i, j, k >> :
                        k \in { k \in (j + 3)..Len(s) :
                                  /\ s[k] = ")"
                                  /\ \A x \in (j + 2)..(k - 1) : s[x] # ")" } } :
                    j \in { j \in (i + 2)..(Len(s) - 1) :
                              /\ s[j] = "]" /\ s[j + 1] = "("
                              /\ \A x \in (i + 1)..(j - 1) : s[x] # "]" } } :
            i \in { i \in 1..Len(s) : s[i] = "[" } }

\* The places <<i, a, k>> where the parenthetical (AuthorList, Year) form
\* stands: "(" at i, a non-empty author list of letters, blanks and "&"
\* ending at a, ",", blanks, four digits and ")" at k.
AcademicSpans(s) ==
    UNION { UNION { { << i, a, k >> :
                        k \in { k \in (a + 6)..Len(s) :
                                  /\ s[k] = ")"
                                  /\ \A x \in (a + 2)..(k - 5) : s[x] \in Space
                                  /\ \A x \in (k - 4)..(k - 1) : s[x] \in Digit } } :
                    a \in { a \in (i + 1)..(Len(s) - 1) :
                              /\ s[a + 1] = ","
                              /\ \A x \in (i + 1)..a :
                                   s[x] \in Lower \cup Upper \cup Space \cup {"&"} } } :
            i \in { i \in 1..Len(s) : s[i] = "(" } }

\* The matches among the spans: scanning from the left, a span is a match
\* unless it starts inside an earlier match.
Matches(spans) ==
    CHOOSE M \in SUBSET spans :
        \A sp \in spans :
            sp \in M <=> ~ \E c \in M : c[1] < sp[1] /\ sp[1] <= c[3]

\* The position in text order of the match sp among the matches M.
Rank(M, sp) == Cardinality({ c \in M : c[1] <= sp[1] })

ExtractedAsSpecified(s, recs) ==
    LET links == Matches(LinkSpans(s))
        acads == Matches(AcademicSpans(s))
        k     == Cardinality(links)
        m     == Cardinality(acads)
    IN  /\ Len(recs) = k + m
        /\ \A sp \in links :
             LET r == recs[Rank(links, sp)] IN
             /\ r.ID = << "cite", Rank(links, sp) >>
             /\ r.Source = SubSeq(s, sp[1] + 1, sp[2] - 1)
             /\ r.URL = SubSeq(s, sp[2] + 2, sp[3] - 1)
        /\ \A sp \in acads :
             LET r == recs[k + Rank(acads, sp)] IN
             /\ r.ID = << "acad", Rank(acads, sp) >>
             /\ r.Source = SubSeq(s, sp[1] + 1, sp[2]) \o << " ", "(" >>
                           \o SubSeq(s, sp[3] - 4, sp[3] - 1) \o << ")" >>
             /\ r.URL = << >>

RECURSIVE Flatten(_)
Flatten(seqs) == IF seqs = << >> THEN << >> ELSE Head(seqs) \o Flatten(Tail(seqs))

\* The records of recs that no earlier record equals in both source and url,
\* in the order of recs.
RECURSIVE FirstPerPair(_, _)
FirstPerPair(recs, i) ==
    IF i > Len(recs) THEN << >>
    ELSE IF \E j \in 1..(i - 1) : /\ recs[j].Source = recs[i].Source
                                  /\ recs[j].URL = recs[i].URL
         THEN FirstPerPair(recs, i + 1)
         ELSE << recs[i] >> \o FirstPerPair(recs, i + 1)

MixedText == << "(", "A", ",", " ", "2", "0", "2", "0", ")", "[", "a", "]", "(", "b", "c", ")" >>

\* C9: deduplication keeps exactly the first record of every distinct
\* (source, url) pair, in first-seen order: a record is dropped only if an
\* earlier record has the same source and the same url.
C9_DedupeKeepsFirstPerPair ==
    synStage = "extracted" => citations = FirstPerPair(Flatten(perResult), 1)

\* C10: a text with k link matches and m academic matches yields k+m
\* records, the link records first in text order with ids cite1..citek,
\* source the label and url the target, then the academic records with ids
\* acad1..acadm, source "AuthorList (Year)" and empty url; "[Foo](http://x)"
\* alone yields exactly the record (Foo, http://x), and two results that
\* both consist of it yield one record after deduplication.
C10_ExtractLinksThenAcademic ==
    synStage = "extracted" =>
        /\ \A n \in 1..Len(selected) :
             /\ ExtractedAsSpecified(selected[n].Content, perResult[n])
             /\ selected[n].Content = FooLink =>
                  /\ Len(perResult[n]) = 1
                  /\ perResult[n][1].ID = << "cite", 1 >>
                  /\ perResult[n][1].Source = << "F", "o", "o" >>
                  /\ perResult[n][1].URL = << "h", "t", "t", "p", ":", "/", "/", "x" >>
        /\ ( /\ Len(selected) >= 2
             /\ \A n \in 1..Len(selected) : selected[n].Content = FooLink )
           => Len(citations) = 1

C10_Witness ==
    /\ synStage = "extracted"
    /\ Len(selected) = 3
    /\ selected[1].Content = FooLink
    /\ selected[2].Content = MixedText
    /\ selected[3].Content = FooLink
    /\ Len(perResult[2]) = 2
    /\ perResult[2][1].ID = << "cite", 1 >>
    /\ perResult[2][2].ID = << "acad", 1 >>
    /\ Len(citations) = 3

(***************************************************************************)
(* More of package strings, on sequences of characters.                    *)
(***************************************************************************)
HasPrefix(s, prefix) ==
    Len(s) >= Len(prefix) /\ SubSeq(s, 1, Len(prefix)) = prefix

\* strings.Index(s, sub), counted from 1; 0 where Go returns -1.
Index(s, sub) ==
    LET S == { i \in 1..(Len(s) - Len(sub) + 1) :
                 SubSeq(s, i, i + Len(sub) - 1) = sub }
    IN  IF S = {} THEN 0 ELSE CHOOSE i \in S : \A k \in S : i <= k

Contains(s, sub) == Index(s, sub) # 0

\* strings.Split(s, sep) for a separator of one character.
RECURSIVE Split(_, _)
Split(s, sep) ==
    LET i == IndexFrom(s, sep, 1) IN
    IF i = 0 THEN << s >>
    ELSE << SubSeq(s, 1, i - 1) >> \o Split(SubSeq(s, i + 1, Len(s)), sep)

TrimSpace(s) ==
    LET S == { i \in 1..Len(s) : s[i] \notin Space } IN
    IF S = {} THEN << >>
    ELSE SubSeq(s, CHOOSE i \in S : \A k \in S : i <= k,
                   CHOOSE i \in S : \A k \in S : i >= k)

\* len(strings.Fields(s)): the number of maximal runs of non-blank characters.
FieldCount(s) ==
    Cardinality({ i \in 1..Len(s) :
                    s[i] \notin Space /\ (i = 1 \/ s[i - 1] \in Space) })

lowerOf ==
    [ c \in Upper |->
        CASE c = "A" -> "a" [] c = "B" -> "b" [] c = "C" -> "c" [] c = "D" -> "d"
          [] c = "E" -> "e" [] c = "F" -> "f" [] c = "G" -> "g" [] c = "H" -> "h"
          [] c = "I" -> "i" [] c = "J" -> "j" [] c = "K" -> "k" [] c = "L" -> "l"
          [] c = "M" -> "m" [] c = "N" -> "n" [] c = "O" -> "o" [] c = "P" -> "p"
          [] c = "Q" -> "q" [] c = "R" -> "r" [] c = "S" -> "s" [] c = "T" -> "t"
          [] c = "U" -> "u" [] c = "V" -> "v" [] c = "W" -> "w" [] c = "X" -> "x"
          [] c = "Y" -> "y" [] c = "Z" -> "z" ]

ToLower(s) == [ i \in 1..Len(s) |-> IF s[i] \in Upper THEN lowerOf[s[i]] ELSE s[i] ]

(***************************************************************************)
(* Orchestrator: the citations and the quality score of a response.        *)
(* Scores are float64 in the source; the model keeps 18000 times the       *)
(* value, which is an integer for every term of both scoring functions.    *)
(***************************************************************************)
ZeroCitation == [ Title |-> << >>, Source |-> << >>, Date |-> << >>, URL |-> << >> ]

SourceTag == << "[", "S", "o", "u", "r", "c", "e", ":" >>
sourceTag == << "[", "s", "o", "u", "r", "c", "e", ":" >>

parseCitation(line) ==
    LET start == IF Index(line, SourceTag) # 0 THEN Index(line, SourceTag)
                 ELSE Index(line, sourceTag)
    IN  IF start = 0 THEN ZeroCitation
        ELSE LET end == IndexFrom(line, "]", start) IN
             IF end = 0 THEN ZeroCitation
             ELSE LET citationText == SubSeq(line, start + 8, end - 1)
                      parts == Split(citationText, ",")
                      url == IF Len(parts) > 3 THEN TrimSpace(parts[4]) ELSE << >>
                  IN  [ Title  |-> TrimSpace(parts[1]),
                        Source |-> IF Len(parts) > 1 THEN TrimSpace(parts[2]) ELSE << >>,
                        Date   |-> IF Len(parts) > 2 THEN TrimSpace(parts[3]) ELSE << >>,
                        URL    |-> IF HasPrefix(url, << "h", "t", "t", "p" >>)
                                   THEN url ELSE << >> ]

RECURSIVE citationsOfLines(_)
citationsOfLines(lines) ==
    IF lines = << >> THEN << >>
    ELSE LET line == Head(lines) IN
         IF Contains(line, SourceTag) \/ Contains(line, sourceTag)
         THEN LET citation == parseCitation(line) IN
              IF citation.Title # << >>
              THEN << citation >> \o citationsOfLines(Tail(lines))
              ELSE citationsOfLines(Tail(lines))
         ELSE citationsOfLines(Tail(lines))

\* Orchestrator.extractCitations (the synthesizer has a method of the same name).
Orchestrator_extractCitations(content) == citationsOfLines(Split(content, "\n"))

qualityIndicators ==
    << << "r", "e", "s", "e", "a", "r", "c", "h" >>,
       << "s", "t", "u", "d", "y" >>,
       << "a", "n", "a", "l", "y", "s", "i", "s" >>,
       << "d", "a", "t", "a" >>,
       << "e", "v", "i", "d", "e", "n", "c", "e" >>,
       << "e", "x", "p", "e", "r", "t" >>,
       << "a", "c", "c", "o", "r", "d", "i", "n", "g", " ", "t", "o" >>,
       << "f", "o", "u", "n", "d", " ", "t", "h", "a", "t" >>,
       << "i", "n", "d", "i", "c", "a", "t", "e", "s" >> >>

\* calculateQualityScore without the cap on the citation term.
calculateQualityScoreUncapped(content, cits) ==
    LET wordCount == FieldCount(content)
        citationCount == Len(cits)
        contentLower == ToLower(content)
        matches == Cardinality({ i \in 1..Len(qualityIndicators) :
                                   Contains(contentLower, qualityIndicators[i]) })
    IN  (IF wordCount > 500 THEN 4500 ELSE wordCount * 9)
        + citationCount * 900
        + (IF Contains(content, << "#", "#" >>) \/ Contains(content, << "*", "*" >>)
           THEN 2700 ELSE 0)
        + (IF Contains(content, << "\n", "\n" >>) THEN 1800 ELSE 0)
        + matches * 500

calculateQualityScore(content, cits) ==
    LET wordCount == FieldCount(content)
        citationCount == Len(cits)
        contentLower == ToLower(content)
        matches == Cardinality({ i \in 1..Len(qualityIndicators) :
                                   Contains(contentLower, qualityIndicators[i]) })
    IN  (IF wordCount > 500 THEN 4500 ELSE wordCount * 9)
        + (IF citationCount > 5 THEN 4500 ELSE citationCount * 900)
        + (IF Contains(content, << "#", "#" >>) \/ Contains(content, << "*", "*" >>)
           THEN 2700 ELSE 0)
        + (IF Contains(content, << "\n", "\n" >>) THEN 1800 ELSE 0)
        + matches * 500

\* The ResearchResult literal of runClaudeAgent and runDemoAgent, without
\* the fields the synthesizer never reads.
NewResearchResult(agentID, agentType, content) ==
    LET qualityScore ==
          calculateQualityScore(content, Orchestrator_extractCitations(content))
    IN  [ AgentID |-> agentID, AgentType |-> agentType, Content |-> content,
          Score |-> qualityScore, QualityScore |-> qualityScore ]

(***************************************************************************)
(* pkg/synthesis: scoring and selection.                                   *)
(***************************************************************************)
\* numberPattern \d+\.?\d*%? matched at position i: the end of the match,
\* 0 if there is none.
numberMatchEnd(s, i) ==
    IF s[i] \notin Digit THEN 0
    ELSE LET d == RunEnd(s, i, Digit)
             e == IF d + 1 <= Len(s) /\ s[d + 1] = "."
                  THEN RunEnd(s, d + 2, Digit) ELSE d
         IN  IF e + 1 <= Len(s) /\ s[e + 1] = "%" THEN e + 1 ELSE e

\* len(numberPattern.FindAllString(content, -1))
RECURSIVE countNumbers(_, _)
countNumbers(s, i) ==
    IF i > Len(s) THEN 0
    ELSE LET e == numberMatchEnd(s, i) IN
         IF e # 0 THEN 1 + countNumbers(s, e + 1) ELSE countNumbers(s, i + 1)

scoreResult(r) ==
    LET contentLength == Len(r.Content)
        citationCount == Len(extractCitationsFromContent(r.Content))
        headingCount == Count(r.Content, << "\n", "#" >>)
        dataPoints == countNumbers(r.Content, 1)
    IN  (IF contentLength > 1000 /\ contentLength < 5000 THEN 180000
         ELSE IF contentLength > 500 THEN 90000 ELSE 0)
        + citationCount * 36000
        + headingCount * 27000
        + dataPoints * 9000

\* grouped[result.AgentType] = append(grouped[result.AgentType], result)
groupByAgentType(rs) ==
    [ agentType \in { rs[i].AgentType : i \in 1..Len(rs) } |->
        SelectSeq(rs, LAMBDA r : r.AgentType = agentType) ]

\* The less function handed to sort.Slice, reversed.
lessAscending(a, b) == a.Score < b.Score

\* The less function handed to sort.Slice: descending by Score.
less(a, b) == a.Score > b.Score

\* sort.Slice sorts a slice of at most 12 elements by insertion: element j
\* moves left while it is less than its left neighbour.
RECURSIVE moveLeft(_, _)
moveLeft(data, j) ==
    IF j > 1 /\ less(data[j], data[j - 1])
    THEN moveLeft([data EXCEPT ![j] = data[j - 1], ![j - 1] = data[j]], j - 1)
    ELSE data

RECURSIVE insertionSort(_, _)
insertionSort(data, i) ==
    IF i > Len(data) THEN data ELSE insertionSort(moveLeft(data, i), i + 1)

\* for _, result := range results { result.Score = s.scoreResult(result) }
rescore(rs) == [ i \in 1..Len(rs) |-> [rs[i] EXCEPT !.Score = scoreResult(rs[i])] ]

\* The orders in which a range statement can visit the keys of a map.
RangeOrders(keys) ==
    { order \in [1..Cardinality(keys) -> keys] :
        \A i, j \in 1..Cardinality(keys) : i # j => order[i] # order[j] }

\* selectBestResults, for one order of the range over grouped.
RECURSIVE selectBestResults(_, _)
selectBestResults(grouped, order) ==
    IF order = << >> THEN << >>
    ELSE LET rs == insertionSort(rescore(grouped[Head(order)]), 2)
         IN  (IF Len(rs) > 0 THEN << rs[1] >> ELSE << >>)
             \o selectBestResults(grouped, Tail(order))

(***************************************************************************)
(* Synthesize on its own: the research results arrive in the order in     *)
(* which the goroutines appended them, then Synthesize groups, selects and *)
(* extracts.                                                               *)
(***************************************************************************)
SelectTexts ==
    { << "\n", "#", "\n", "#" >>,
      << "\n", "#", "\n", "#", "\n", "#", "\n", "#", "\n", "#", "\n", "#" >>,
      << "[", "a", "]", "(", "b", "c", ")", "\n", "#", "\n", "#" >>,
      << "[", "a", "b", "]", "(", "c", ")", "\n", "#", "\n", "#" >> }

SelectInit ==
    /\ config \in [ DemoMode : {FALSE}, ModelKnown : {TRUE}, TokenLimit : {0},
                    CostLimit : {0}, Intensity : 1..2, BestOfN : 1..MaxCands ]
    /\ agents = CreateAgents(config.Intensity)
    /\ Len(agents) * config.BestOfN <= MaxCands
    /\ phase = "synthesis"
    /\ pc = [ u \in Units |-> "completed" ]
    /\ groupErr = NoError
    /\ results = << >>
    /\ completed = 0
    /\ result = [ u \in Units |-> NoResult ]
    /\ percentage = [ u \in Units |-> <<0, 1>> ]
    /\ snap = [ u \in Units |-> NoProgress ]
    /\ totalTokens = 0
    /\ totalCost = 0
    /\ agentTokens = << >>
    /\ agentStatuses = << >>
    /\ progress = NoProgress
    /\ lastCheck = NoCheck
    /\ synStage = "results"
    /\ synResults = << >>
    /\ selected = << >>
    /\ perResult = << >>
    /\ citations = << >>
    /\ RunIdle

\* One more unit's result stands in the results list, behind the results of
\* the units that appended before it.
SelectReceive ==
    /\ synStage = "results"
    /\ Len(synResults) < MaxCands
    /\ \E u \in Units, content \in SelectTexts :
         /\ \A i \in 1..Len(synResults) : synResults[i].AgentID # AgentIDOf(u)
         /\ synResults' = Append(synResults,
                                 NewResearchResult(AgentIDOf(u), agents[u[1]], content))
    /\ UNCHANGED << orchVars, runVars, lastCheck, synStage, selected, perResult, citations >>

\* Synthesize up to the citations.  The results are pointers, so the scores
\* selectBestResults assigns are seen through the results list too.
Synthesize ==
    /\ synStage = "results"
    /\ LET groupedResults == groupByAgentType(synResults) IN
       \E order \in RangeOrders(DOMAIN groupedResults) :
         LET selectedResults == selectBestResults(groupedResults, order) IN
         /\ selected' = selectedResults
         /\ perResult' = [ k \in 1..Len(selectedResults) |->
                             extractCitationsFromContent(selectedResults[k].Content) ]
         /\ citations' = extractCitations(selectedResults)
    /\ synResults' = rescore(synResults)
    /\ synStage' = "synthesized"
    /\ UNCHANGED << orchVars, runVars, lastCheck >>

SelectNext == SelectReceive \/ Synthesize

SpecSelect == SelectInit /\ [][SelectNext]_vars

(***************************************************************************)
(* Claims about selection.                                                 *)
(***************************************************************************)
\* The indices of the results of one agent type.
OfType(rs, agentType) == { i \in 1..Len(rs) : rs[i].AgentType = agentType }

\* rs in the order given by the permutation p of its indices.
Reordered(rs, p) == [ i \in 1..Len(rs) |-> rs[p[i]] ]

SelectedIDs(sel) == { sel[i].AgentID : i \in 1..Len(sel) }

\* C7: the selection holds exactly one result of every agent type that has
\* a result and none of the other types, every selected result is one of
\* the results handed in, and its score is at least the score of every
\* result of its type; of three results of one type scored 3, 9 and 5 the
\* one scored 9 is selected.
C7_SelectsBestOfEachType ==
    synStage = "synthesized" =>
        /\ \A k \in 1..Len(allAgents) :
             Cardinality(OfType(selected, allAgents[k]))
               = IF OfType(synResults, allAgents[k]) # {} THEN 1 ELSE 0
        /\ \A i \in 1..Len(selected) :
             /\ \E j \in 1..Len(synResults) : synResults[j] = selected[i]
             /\ \A j \in OfType(synResults, selected[i].AgentType) :
                  selected[i].Score >= synResults[j].Score
        /\ \A k \in 1..Len(allAgents) :
             [ j \in 1..Len(synResults) |-> synResults[j].Score ]
                 = << 54000, 162000, 90000 >>
             /\ OfType(synResults, allAgents[k]) = 1..3
             => \A i \in OfType(selected, allAgents[k]) :
                  selected[i] = synResults[2]

C7_Witness ==
    /\ synStage = "synthesized"
    /\ Len(synResults) = 3
    /\ \A j \in 1..3 : synResults[j].AgentType = allAgents[1]
    /\ [ j \in 1..3 |-> synResults[j].Score ] = << 54000, 162000, 90000 >>
    /\ Len(selected) = 1
    /\ selected[1] = synResults[2]

\* C8: which result is selected for each agent type does not depend on the
\* order in which the results were appended to the results list: the same
\* results in any other order give the same selection.
C8_SelectionIndependentOfAppendOrder ==
    synStage = "synthesized" =>
        \A p \in RangeOrders(1..Len(synResults)) :
            LET grouped == groupByAgentType(Reordered(synResults, p)) IN
            \A order \in RangeOrders(DOMAIN grouped) :
                SelectedIDs(selectBestResults(grouped, order)) = SelectedIDs(selected)

\* C17: a research result is the same after every later step as it was when
\* its unit returned it: no step changes a field of a result that already
\* stands in the results list, in particular not its Score.
C17_ResultNeverChanges ==
    [][ \A i \in 1..Len(synResults) : synResults'[i] = synResults[i] ]_vars

(***************************************************************************)
(* CreateAgents on its own: New is called for a configuration of any       *)
(* intensity, and once more for the same configuration.                    *)
(***************************************************************************)
AgentsInit ==
    /\ config \in [ DemoMode : {TRUE}, ModelKnown : {TRUE}, TokenLimit : {0},
                    CostLimit : {0}, Intensity : (-MaxIntensity)..MaxIntensity,
                    BestOfN : {1} ]
    /\ agents = << >>
    /\ phase = "new"
    /\ pc = << >>
    /\ groupErr = NoError
    /\ results = << >>
    /\ completed = 0
    /\ result = << >>
    /\ percentage = << >>
    /\ snap = << >>
    /\ totalTokens = 0
    /\ totalCost = 0
    /\ agentTokens = << >>
    /\ agentStatuses = << >>
    /\ progress = NoProgress
    /\ lastCheck = NoCheck
    /\ SynIdle
    /\ calls = << >>
    /\ runErr = << >>
    /\ written = FALSE
    /\ essay = << >>
    /\ atLimit = << >>
    /\ locks = AllFree

\* agents: agents.CreateAgents(config.Intensity), in New's Orchestrator literal.
AgentsNew ==
    /\ phase = "new"
    /\ phase' = "created"
    /\ agents' = CreateAgents(config.Intensity)
    /\ UNCHANGED << config, pc, groupErr, results, completed, result,
                    percentage, snap, totalTokens, totalCost, agentTokens,
                    agentStatuses, progress, lastCheck, synVars, runVars >>

\* New is called again with the same configuration.
AgentsNewAgain ==
    /\ phase \in {"created", "recreated"}
    /\ phase' = "recreated"
    /\ agents' = CreateAgents(config.Intensity)
    /\ UNCHANGED << config, pc, groupErr, results, completed, result,
                    percentage, snap, totalTokens, totalCost, agentTokens,
                    agentStatuses, progress, lastCheck, synVars, runVars >>

AgentsNext == AgentsNew \/ AgentsNewAgain

SpecAgents == AgentsInit /\ [][AgentsNext]_vars

\* The length the spec gives the role list for an intensity.
RoleCount(intensity) ==
    IF intensity <= 0 THEN 2 ELSE IF intensity > 10 THEN 10 ELSE intensity

\* C11: for every intensity the roles are the first 2 (intensity <= 0), all
\* 10 (intensity > 10) or the first intensity roles of the ten-role catalog,
\* in catalog order; a second call with the same intensity returns the same
\* roles.
C11_RolesArePrefixOfCatalog ==
    /\ [](phase \in {"created", "recreated"} =>
            /\ Len(allAgents) = 10
            /\ Len(agents) = RoleCount(config.Intensity)
            /\ \A k \in 1..Len(agents) : agents[k] = allAgents[k]
            /\ config.Intensity = 0 => agents = << allAgents[1], allAgents[2] >>
            /\ config.Intensity = 5 => Len(agents) = 5
            /\ config.Intensity = 15 => agents = allAgents)
    /\ [][ (phase \in {"created", "recreated"}) => agents' = agents ]_vars

C11_Witness ==
    /\ phase = "recreated"
    /\ config.Intensity = 15
    /\ Len(agents) = 10
    /\ agents[10] = "practical-applications"

(***************************************************************************)
(* Claims about Execute as a whole.                                        *)
(***************************************************************************)
\* 10 + 60 * completedCount / total, as <<numerator, denominator>>.
PercentageOf(completedCount) ==
    << completedCount * 60 + 10 * totalAgents, totalAgents >>

\* C12: every overall progress snapshot handed to the dashboard during the
\* research phase carries percentage = 10 + 60 * completed / total for the
\* completed count it carries itself, and its active and completed counts
\* add up to total.
C12_SnapshotIsOneMoment ==
    progress.Stage = "research" =>
        /\ progress.Percentage = PercentageOf(progress.CompletedAgents)
        /\ progress.ActiveAgents + progress.CompletedAgents = totalAgents

\* The error Execute returned comes from the synthesis phase.
SynthesisFailed == runErr # << >> /\ runErr[1] = "synthesis phase failed"

\* New failed, or conductParallelResearch failed before its loops.
SetupFailed ==
    \/ runErr = << "failed to create anthrogo client" >>
    \/ runErr = << "research phase failed", "MkdirTemp" >>

\* C13: when the synthesis call fails the run ends with an error, the output
\* writer is never invoked and no essay is returned; the output writer is
\* invoked only with an essay that synthesis returned.
C13_SynthesisFailureEmitsNothing ==
    /\ SynthesisFailed => phase = "failed" /\ ~written /\ essay = << >>
    /\ written => essay # << >> /\ ~SynthesisFailed
    /\ phase \in {"output", "done"} => essay # << >>

C13_Witness ==
    /\ SynthesisFailed
    /\ phase = "failed"
    /\ Len(results) = 2
    /\ ~written

\* C14: after a setup failure (the client cannot be constructed, or the
\* scratch directory cannot be made) the run has ended with an error and no
\* unit ever reports a status, checks the budget or issues a call.
C14_SetupFailureBeforeAnyUnit ==
    SetupFailed =>
        /\ phase = "failed"
        /\ \A u \in Units : pc[u] = "idle" /\ calls[u] = 0
        /\ agentStatuses = << >>
        /\ agentTokens = << >>
        /\ results = << >>
        /\ ~ENABLED Launch
        /\ \A u \in Units : ~ENABLED ReportRunning(u)

C14_Witness ==
    /\ runErr = << "failed to create anthrogo client" >>
    /\ phase = "failed"
    /\ Cardinality(Units) = 2

C19_SkippedIsNotFailed ==
    /\ [](\A u \in Units : pc[u] = "skipped" =>
            /\ calls[u] = 0
            /\ AgentIDOf(u) \notin DOMAIN agentTokens
            /\ AgentIDOf(u) \notin ResultIDs
            /\ result[u] = NoResult
            /\ agentStatuses[AgentIDOf(u)].Status # "failed"
            /\ groupErr = NoError
            /\ ~ResearchFailed)
    /\ [][ \A u \in Units : pc[u] = "check" /\ pc'[u] = "skipped" =>
              /\ completed' = completed /\ results' = results
              /\ totalTokens' = totalTokens /\ totalCost' = totalCost
              /\ agentTokens' = agentTokens /\ calls' = calls ]_vars

C19_Witness ==
    /\ phase = "synthesis"
    /\ \E u \in Units : pc[u] = "skipped"
    /\ \E u \in Units : pc[u] = "completed"
    /\ completed = 1

\* C20: whatever units fail, even all of them, the research phase returns
\* without error, synthesis is entered with the results that are there, and
\* when the synthesis call succeeds an essay is returned without error.
C20_ProceedsWithSurvivors ==
    /\ ~ResearchFailed \/ runErr[2] = "MkdirTemp"
    /\ phase = "research" /\ AllReturned => ENABLED Join /\ groupErr = NoError
    /\ phase = "synthesis" => ENABLED SynthesisDone
    /\ phase \in {"output", "done"} =>
         /\ runErr = << >>
         /\ essay # << >>
         /\ essay[1].TotalVariations = Len(results)
         /\ essay[1].TotalVariations
              = Cardinality({ u \in Units : pc[u] = "completed" })

C20_Witness ==
    /\ phase = "output"
    /\ Cardinality(Units) = 2
    /\ \A u \in Units : pc[u] = "failed"
    /\ essay # << >>
    /\ essay[1].TotalVariations = 0


(***************************************************************************)
(* float64 values.  A finite value is kept as the exact fraction num/den   *)
(* in lowest terms (rounding is left out); NaN and +Inf are values of      *)
(* their own.  Every operand in calculateEssayQuality is zero or positive, *)
(* so no negative value and no -Inf arises.                                *)
(***************************************************************************)
RECURSIVE GCD(_, _)
GCD(a, b) == IF b = 0 THEN a ELSE GCD(b, a % b)

NaN == [ kind |-> "NaN", num |-> 0, den |-> 1 ]
Inf == [ kind |-> "Inf", num |-> 0, den |-> 1 ]

\* The finite value n/d, n >= 0 and d > 0.
Frac(n, d) == [ kind |-> "num", num |-> n \div GCD(n, d), den |-> d \div GCD(n, d) ]

\* float64(n)
Float(n) == Frac(n, 1)

\* x / y
Quo(x, y) ==
    IF x.kind = "NaN" \/ y.kind = "NaN" THEN NaN
    ELSE IF x.kind = "Inf" THEN (IF y.kind = "Inf" THEN NaN ELSE Inf)
    ELSE IF y.kind = "Inf" THEN Float(0)
    ELSE IF y.num = 0 THEN (IF x.num = 0 THEN NaN ELSE Inf)
    ELSE Frac(x.num * y.den, x.den * y.num)

\* x + y
Sum(x, y) ==
    IF x.kind = "NaN" \/ y.kind = "NaN" THEN NaN
    ELSE IF x.kind = "Inf" \/ y.kind = "Inf" THEN Inf
    ELSE Frac(x.num * y.den + y.num * x.den, x.den * y.den)

\* x * y
Prod(x, y) ==
    IF x.kind = "NaN" \/ y.kind = "NaN" THEN NaN
    ELSE IF x.kind = "Inf" THEN (IF y.kind = "num" /\ y.num = 0 THEN NaN ELSE Inf)
    ELSE IF y.kind = "Inf" THEN (IF x.num = 0 THEN NaN ELSE Inf)
    ELSE Frac(x.num * y.num, x.den * y.den)

\* x > y: false as soon as one side is NaN.
Greater(x, y) ==
    /\ x.kind # "NaN" /\ y.kind # "NaN"
    /\ y.kind # "Inf"
    /\ x.kind = "Inf" \/ x.num * y.den > y.num * x.den

\* A result's QualityScore as the float64 it is in the source.
QualityScoreOf(r) == Frac(r.QualityScore, 18000)

(***************************************************************************)
(* pkg/synthesis: the formatted essay, and the orchestrator's quality      *)
(* metrics for it.                                                         *)
(***************************************************************************)
\* fmt.Sprintf("%d", n), n >= 0
RECURSIVE Itoa(_)
Itoa(n) ==
    LET digit == << "0", "1", "2", "3", "4", "5", "6", "7", "8", "9" >>[(n % 10) + 1]
    IN  IF n < 10 THEN << digit >> ELSE Itoa(n \div 10) \o << digit >>

\* strings.Join(elems, sep)
RECURSIVE strings_Join(_, _)
strings_Join(elems, sep) ==
    IF elems = << >> THEN << >>
    ELSE IF Len(elems) = 1 THEN elems[1]
    ELSE elems[1] \o sep \o strings_Join(Tail(elems), sep)

\* config.Topic, and time.Now().Format("2006-01-02") on the day of the run.
Topic == << "T" >>
Today ==
    << "2", "0", "0", "6", "-", "0", "1", "-", "0", "2" >>

\* One line of the references section.
referenceLine(i, citation) ==
    (IF citation.URL # << >>
     THEN Itoa(i) \o << ".", " ", "[" >> \o citation.Source \o << "]", "(" >>
          \o citation.URL \o << ")" >>
     ELSE Itoa(i) \o << ".", " " >> \o citation.Source)
    \o (IF Len(citation.Authors) > 0
        THEN << " ", "-", " " >> \o strings_Join(citation.Authors, << ",", " " >>)
        ELSE << >>)
    \o (IF citation.Date # << >>
        THEN << " ", "(" >> \o citation.Date \o << ")" >>
        ELSE << >>)
    \o << "\n" >>

RECURSIVE referenceLines(_, _)
referenceLines(cs, i) ==
    IF i > Len(cs) THEN << >>
    ELSE referenceLine(i, cs[i]) \o referenceLines(cs, i + 1)

formatEssay(topic, content, cs, bestOfN) ==
    << "-", "-", "-", "\n", "t", "i", "t", "l", "e", ":", " ", "\"", "C",
       "o", "m", "p", "r", "e", "h", "e", "n", "s", "i", "v", "e", " ",
       "A", "n", "a", "l", "y", "s", "i", "s", ":", " " >>
    \o topic \o
    << "\"", "\n", "d", "a", "t", "e", ":", " " >>
    \o Today \o
    << "\n", "s", "y", "n", "t", "h", "e", "s", "i", "s", "_", "m", "e",
       "t", "h", "o", "d", ":", " ", "e", "s", "s", "a", "y", "f", "o",
       "r", "g", "e", "-", "a", "d", "v", "e", "r", "s", "a", "r", "i",
       "a", "l", "\n", "-", "-", "-", "\n", "\n" >>
    \o content
    \o (IF Len(cs) > 0
        THEN
             << "\n", "\n", "#", "#", " ", "R", "e", "f", "e", "r", "e",
                "n", "c", "e", "s", "\n", "\n" >>
             \o referenceLines(cs, 1)
        ELSE << >>)
    \o
    << "\n", "\n", "-", "-", "-", "\n", "*", "G", "e", "n", "e", "r", "a",
       "t", "e", "d", " ", "u", "s", "i", "n", "g", " ", "E", "s", "s",
       "a", "y", "F", "o", "r", "g", "e", " ", "w", "i", "t", "h", " ",
       "a", "d", "v", "e", "r", "s", "a", "r", "i", "a", "l", " ", "s",
       "y", "n", "t", "h", "e", "s", "i", "s", " ", "a", "n", "d", " ",
       "b", "e", "s", "t", "-", "o", "f", "-" >>
    \o Itoa(bestOfN) \o
    << " ", "s", "e", "l", "e", "c", "t", "i", "o", "n", ".", "*", "\n" >>

\* totalScore after the loop over results, starting from 0.0.
RECURSIVE totalScoreOf(_)
totalScoreOf(rs) ==
    IF rs = << >> THEN Float(0)
    ELSE Sum(totalScoreOf(SubSeq(rs, 1, Len(rs) - 1)), QualityScoreOf(rs[Len(rs)]))

calculateEssayQuality(e, rs) ==
    LET Coherence ==
          IF Contains(e.Content, << "#", "#", " " >>) /\ Contains(e.Content, << "\n", "\n" >>)
          THEN Frac(8, 10) ELSE Frac(6, 10)
        uniqueCitations == { e.Citations[i].Title : i \in 1..Len(e.Citations) }
        quotient == Quo(Float(Cardinality(uniqueCitations)), Float(Len(rs) * 2))
        CitationQuality == IF Greater(quotient, Float(1)) THEN Float(1) ELSE quotient
        DepthScore == Quo(totalScoreOf(rs), Float(Len(rs)))
        sourceTypes == { rs[i].AgentType : i \in 1..Len(rs) }
        Originality == Quo(Float(Cardinality(sourceTypes)), Float(Len(agents)))
    IN  [ Coherence |-> Coherence,
          CitationQuality |-> CitationQuality,
          DepthScore |-> DepthScore,
          Originality |-> Originality,
          OverallScore |-> Sum(Sum(Sum(Prod(Coherence, Frac(25, 100)),
                                       Prod(CitationQuality, Frac(35, 100))),
                                   Prod(DepthScore, Frac(25, 100))),
                               Prod(Originality, Frac(15, 100))) ]


(***************************************************************************)
(* synthesizeResults on its own: research results arrive, Synthesize       *)
(* selects and extracts, runSynthesis returns the essay text, and the      *)
(* orchestrator attaches the quality metrics.                              *)
(***************************************************************************)
\* What the research units wrote: no citation, one link, two links, and an
\* academic reference.
EssayTexts ==
    { << "x" >>,
      << "[", "a", "]", "(", "b", ")" >>,
      << "[", "a", "]", "(", "b", ")", "[", "c", "]", "(", "d", ")" >>,
      << "(", "L", "e", "e", ",", " ", "2", "0", "2", "0", ")" >> }

\* What runSynthesis returns: a text without a heading that cites a source
\* no research result names, and a text with a heading.
EssayBodies ==
    { << "[", "z", "]", "(", "y", ")" >>,
      << "#", "#", " ", "E" >> }

EssayInit ==
    /\ config \in [ DemoMode : {FALSE}, ModelKnown : {TRUE}, TokenLimit : {0},
                    CostLimit : {0}, Intensity : 1..2, BestOfN : 1..MaxEssayResults ]
    /\ agents = CreateAgents(config.Intensity)
    /\ Len(agents) * config.BestOfN <= MaxEssayResults
    /\ phase = "synthesis"
    /\ pc = [ u \in Units |-> "completed" ]
    /\ groupErr = NoError
    /\ results = << >>
    /\ completed = 0
    /\ result = [ u \in Units |-> NoResult ]
    /\ percentage = [ u \in Units |-> <<0, 1>> ]
    /\ snap = [ u \in Units |-> NoProgress ]
    /\ totalTokens = 0
    /\ totalCost = 0
    /\ agentTokens = << >>
    /\ agentStatuses = << >>
    /\ progress = NoProgress
    /\ lastCheck = NoCheck
    /\ synStage = "results"
    /\ synResults = << >>
    /\ selected = << >>
    /\ perResult = << >>
    /\ citations = << >>
    /\ RunIdle

\* One more unit's result stands in the results list.
EssayReceive ==
    /\ synStage = "results"
    /\ Len(synResults) < MaxEssayResults
    /\ \E u \in Units, content \in EssayTexts :
         /\ \A i \in 1..Len(synResults) : synResults[i].AgentID # AgentIDOf(u)
         /\ synResults' = Append(synResults,
                                 NewResearchResult(AgentIDOf(u), agents[u[1]], content))
    /\ UNCHANGED << orchVars, runVars, lastCheck, synStage, selected, perResult, citations >>

\* The rest of Synthesize with a citation list that also takes in the
\* citations found in the text runSynthesis returned.
SynthesisReturnsCitingBody ==
    /\ synStage = "synthesized"
    /\ \E essayContent \in EssayBodies :
         LET finalEssay == formatEssay(Topic, essayContent, citations, config.BestOfN)
             e == [ Content |-> finalEssay,
                    Citations |-> citations \o extractCitationsFromContent(essayContent),
                    AgentsUsed |-> NewEssay(synResults).AgentsUsed,
                    TotalVariations |-> NewEssay(synResults).TotalVariations ]
         IN  essay' = << [ Content |-> e.Content,
                           Citations |-> e.Citations,
                           AgentsUsed |-> e.AgentsUsed,
                           TotalVariations |-> e.TotalVariations,
                           QualityMetrics |-> calculateEssayQuality(e, synResults) ] >>
    /\ synStage' = "returned"
    /\ UNCHANGED << orchVars, lastCheck, synResults, selected, perResult, citations,
                    calls, runErr, written, atLimit, locks >>

\* The rest of Synthesize and of synthesizeResults: runSynthesis returns
\* essayContent, formatEssay and the Essay literal build the essay, and
\* calculateEssayQuality fills in its QualityMetrics.
SynthesisReturns ==
    /\ synStage = "synthesized"
    /\ \E essayContent \in EssayBodies :
         LET finalEssay == formatEssay(Topic, essayContent, citations, config.BestOfN)
             e == [ Content |-> finalEssay,
                    Citations |-> citations,
                    AgentsUsed |-> NewEssay(synResults).AgentsUsed,
                    TotalVariations |-> NewEssay(synResults).TotalVariations ]
         IN  essay' = << [ Content |-> e.Content,
                           Citations |-> e.Citations,
                           AgentsUsed |-> e.AgentsUsed,
                           TotalVariations |-> e.TotalVariations,
                           QualityMetrics |-> calculateEssayQuality(e, synResults) ] >>
    /\ synStage' = "returned"
    /\ UNCHANGED << orchVars, lastCheck, synResults, selected, perResult, citations,
                    calls, runErr, written, atLimit, locks >>

EssayNext == EssayReceive \/ Synthesize \/ SynthesisReturns

SpecEssay == EssayInit /\ [][EssayNext]_vars

(***************************************************************************)
(* Claims about the quality metrics.                                       *)
(***************************************************************************)
\* The citations of the essay's citation list, each counted once.
DistinctCitations(e) == { e.Citations[i] : i \in 1..Len(e.Citations) }

\* C15: for an essay made from at least one research result, CitationQuality
\* is min(1, D / (2 * len(results))), D being the number of distinct
\* citations in the essay's citation list.
C15_CitationQualityCountsDistinctCitations ==
    (synStage = "returned" /\ Len(synResults) > 0) =>
        LET D == Cardinality(DistinctCitations(essay[1]))
            n == Len(synResults)
        IN  essay[1].QualityMetrics.CitationQuality
              = (IF D >= 2 * n THEN Float(1) ELSE Frac(D, 2 * n))

\* C16: whatever results the research phase handed over, none included, the
\* OverallScore of the returned essay is a number, and it lies in [0, 1].
C16_OverallScoreIsDefined ==
    synStage = "returned" =>
        LET OverallScore == essay[1].QualityMetrics.OverallScore
        IN  /\ OverallScore.kind = "num"
            /\ 0 <= OverallScore.num
            /\ OverallScore.num <= OverallScore.den


(***************************************************************************)
(* Claims about the citation list of the essay.                            *)
(***************************************************************************)
\* The texts of the selected results and nothing else of them.
SelectedTexts == [ k \in 1..Len(selected) |-> [ Content |-> selected[k].Content ] ]

\* The results that were handed in and not selected.
NotSelected ==
    { i \in 1..Len(synResults) :
        \A k \in 1..Len(selected) : selected[k].AgentID # synResults[i].AgentID }

BodyLink == << "[", "z", "]", "(", "y", ")" >>

Words(n) == [ i \in 1..(2 * n) |-> IF i % 2 = 1 THEN "w" ELSE " " ]

\* c lines "[Source: T]", each after a line break.
RECURSIVE CitationLines(_)
CitationLines(c) ==
    IF c = 0 THEN << >>
    ELSE << "\n", "[", "S", "o", "u", "r", "c", "e", ":", " ", "T", "]" >>
         \o CitationLines(c - 1)

QualityText(words, heading, break, indicators, lines) ==
    Words(words)
    \o (IF heading THEN << "#", "#", " ", "H" >> ELSE << >>)
    \o (IF break THEN << "\n", "\n" >> ELSE << >>)
    \o strings_Join(SubSeq(qualityIndicators, 1, indicators), << " " >>)
    \o CitationLines(lines)

QualityTexts ==
    { QualityText(words, heading, break, indicators, lines) :
        words \in {0, 1, MaxWords - 1, MaxWords},
        heading \in BOOLEAN, break \in BOOLEAN,
        indicators \in {0, 5, Len(qualityIndicators)},
        lines \in 0..MaxCitationLines }

QualityInit ==
    /\ config = [ DemoMode |-> FALSE, ModelKnown |-> TRUE, TokenLimit |-> 0,
                  CostLimit |-> 0, Intensity |-> 1, BestOfN |-> 1 ]
    /\ agents = CreateAgents(config.Intensity)
    /\ phase = "research"
    /\ pc = [ u \in Units |-> "calling" ]
    /\ groupErr = NoError
    /\ results = << >>
    /\ completed = 0
    /\ result = [ u \in Units |-> NoResult ]
    /\ percentage = [ u \in Units |-> <<0, 1>> ]
    /\ snap = [ u \in Units |-> NoProgress ]
    /\ totalTokens = 0
    /\ totalCost = 0
    /\ agentTokens = << >>
    /\ agentStatuses = << >>
    /\ progress = NoProgress
    /\ lastCheck = NoCheck
    /\ synStage = "idle"
    /\ synResults = << >>
    /\ selected = << >>
    /\ perResult = << >>
    /\ citations = << >>
    /\ RunIdle

\* The response arrives, and the unit builds the ResearchResult it returns.
AgentReturns ==
    /\ synStage = "idle"
    /\ \E u \in Units, content \in QualityTexts :
         synResults' = << NewResearchResult(AgentIDOf(u), agents[u[1]], content) >>
    /\ synStage' = "results"
    /\ UNCHANGED << orchVars, runVars, lastCheck, selected, perResult, citations >>

QualityNext == AgentReturns

SpecQuality == QualityInit /\ [][QualityNext]_vars

\* C22: the QualityScore of every result a research unit returns lies in
\* [0, 1], whatever its text and however many citations the text has; the
\* five terms (words, citations, structure, paragraph break, indicators)
\* never add up to more than 1.
C22_QualityScoreInUnitInterval ==
    \A i \in 1..Len(synResults) :
        /\ 0 <= synResults[i].QualityScore
        /\ synResults[i].QualityScore <= 18000

\* A response that earns every term in full: more than 500 words, more than
\* 5 citations, a heading, a paragraph break and all nine indicators.
C22_Witness ==
    /\ synStage = "results"
    /\ Len(synResults) = 1
    /\ FieldCount(synResults[1].Content) > 500
    /\ Len(Orchestrator_extractCitations(synResults[1].Content)) > 5
    /\ synResults[1].QualityScore = 18000


(***************************************************************************)
(* Claims about the token budget at the end of the research phase.         *)
(***************************************************************************)
\* The usage recorded for unit u, 0 if none was.
UsageOf(u) ==
    IF AgentIDOf(u) \in DOMAIN agentTokens THEN agentTokens[AgentIDOf(u)] ELSE 0

RECURSIVE SumUsage(_)
SumUsage(S) ==
    IF S = {} THEN 0
    ELSE LET u == CHOOSE x \in S : TRUE IN UsageOf(u) + SumUsage(S \ {u})

ResearchOver == phase \notin {"new", "execute", "research"} /\ AllReturned

\* C23, as stated: once the research phase is over, totalTokens exceeds the
\* token limit by at most the summed usage of the units that were in flight
\* (past the pre-check, usage not yet recorded) at the moment totalTokens
\* first reached the limit.
C23_OvershootWithinInFlightUsage ==
    (ResearchOver /\ atLimit # << >>) =>
        totalTokens - config.TokenLimit <= SumUsage(atLimit[1].inFlight)

\* C23, amended: the unit whose usage first brought totalTokens to the limit
\* can itself carry it past the limit, by less than its own usage; from then
\* on totalTokens grows by at most the summed usage of the units in flight
\* at that moment.  A unit in flight is never interrupted: the group's
\* context is never cancelled, and a unit in flight at that moment ends
\* completed or failed, never skipped.
C23_OvershootWithinUsageAtLimit ==
    /\ InFlight # {} => ~ctxCancelled
    /\ atLimit # << >> =>
         /\ atLimit[1].total - config.TokenLimit < UsageOf(atLimit[1].by)
         /\ \A u \in atLimit[1].inFlight : pc[u] # "skipped"
    /\ (ResearchOver /\ atLimit # << >>) =>
         /\ totalTokens <= atLimit[1].total + SumUsage(atLimit[1].inFlight)
         /\ \A u \in atLimit[1].inFlight : pc[u] \in {"completed", "failed"}

\* The limit was reached while another unit was in flight, and that unit's
\* usage was added on top.
C23_Witness ==
    /\ ResearchOver
    /\ atLimit # << >>
    /\ atLimit[1].inFlight # {}
    /\ totalTokens > atLimit[1].total
    /\ totalTokens > config.TokenLimit


(***************************************************************************)
(* Claims about what the dashboard is told.                                *)
(***************************************************************************)
Terminal == {"completed", "failed"}

\* This step delivers a status update for the task id.
UpdateDelivered(id) ==
    /\ id \in DOMAIN agentStatuses'
    /\ id \notin DOMAIN agentStatuses \/ agentStatuses'[id] # agentStatuses[id]

\* C24: the statuses delivered for a task are "running" and then at most one
\* of "completed" and "failed": the first update of a task says "running",
\* every later one follows "running" and says "completed" or "failed", so
\* none follows a terminal status; no other status is delivered; and the
\* StartTime the dashboard keeps for a task is the one taken at its first
\* update.
C24_StatusProtocol ==
    /\ [](\A id \in DOMAIN agentStatuses :
            /\ agentStatuses[id].Status \in {"running"} \cup Terminal
            /\ agentStatuses[id].StartTime = "running")
    /\ [][ \A u \in Units :
             UpdateDelivered(AgentIDOf(u)) =>
               IF AgentIDOf(u) \notin DOMAIN agentStatuses
               THEN agentStatuses'[AgentIDOf(u)].Status = "running"
               ELSE /\ agentStatuses[AgentIDOf(u)].Status = "running"
                    /\ agentStatuses'[AgentIDOf(u)].Status \in Terminal
                    /\ agentStatuses'[AgentIDOf(u)].StartTime
                         = agentStatuses[AgentIDOf(u)].StartTime ]_vars

\* One task went from running to completed and another from running to
\* failed.
C24_Witness ==
    \E u, v \in Units :
        /\ pc[u] = "completed" /\ pc[v] = "failed"
        /\ AgentIDOf(u) \in DOMAIN agentStatuses
        /\ AgentIDOf(v) \in DOMAIN agentStatuses
        /\ agentStatuses[AgentIDOf(u)].Status = "completed"
        /\ agentStatuses[AgentIDOf(v)].Status = "failed"
        /\ agentStatuses[AgentIDOf(u)].StartTime = "running"
        /\ agentStatuses[AgentIDOf(u)].EndTime = "completed"


\* C26: when synthesis starts, no task stands as "running" in the dashboard:
\* every task that was reported running has been reported completed or
\* failed, whether its unit succeeded, failed or was skipped.
C26_NoTaskLeftRunning ==
    phase = "synthesis" =>
        \A id \in DOMAIN agentStatuses : agentStatuses[id].Status \in Terminal


\* C27: during the research phase every UpdateProgress call stores a
\* percentage and a completed count at least as large as the ones it
\* replaces, in whatever order the units complete.
C27_ProgressMonotone ==
    [][ phase = "research" =>
          /\ progress'.Percentage[1] * progress.Percentage[2]
               >= progress.Percentage[1] * progress'.Percentage[2]
          /\ progress'.CompletedAgents >= progress.CompletedAgents ]_vars


(***************************************************************************)
(* Claims about the tracker's books during a run.                          *)
(***************************************************************************)
RECURSIVE SumOver(_, _)
SumOver(f, S) ==
    IF S = {} THEN 0
    ELSE LET x == CHOOSE y \in S : TRUE IN f[x] + SumOver(f, S \ {x})

\* C28: totalTokens is always the sum of the usages kept per task; a task's
\* usage, once recorded, is not recorded again; totalTokens and totalCost
\* never decrease, so exceedsLimits, once true, stays true.
C28_BudgetAccounting ==
    /\ [](totalTokens = SumOver(agentTokens, DOMAIN agentTokens))
    /\ [][ /\ totalTokens' >= totalTokens
           /\ totalCost' >= totalCost
           /\ \A id \in DOMAIN agentTokens :
                /\ id \in DOMAIN agentTokens'
                /\ agentTokens'[id] = agentTokens[id]
           /\ Cardinality(DOMAIN agentTokens' \ DOMAIN agentTokens) <= 1
           /\ totalTokens' # totalTokens => DOMAIN agentTokens' # DOMAIN agentTokens
           /\ exceedsLimits => exceedsLimits' ]_vars

\* Two tasks have recorded different usages, and the limit is exceeded.
C28_Witness ==
    /\ Cardinality(DOMAIN agentTokens) = 2
    /\ \E id1, id2 \in DOMAIN agentTokens : agentTokens[id1] # agentTokens[id2]
    /\ totalTokens = 150
    /\ exceedsLimits


(***************************************************************************)
(* Claims about deduplication as a filter.                                 *)
(***************************************************************************)
\* sub is got from full by leaving records out.
RECURSIVE IsSubsequence(_, _)
IsSubsequence(sub, full) ==
    IF sub = << >> THEN TRUE
    ELSE IF full = << >> THEN FALSE
    ELSE IF Head(sub) = Head(full) THEN IsSubsequence(Tail(sub), Tail(full))
    ELSE IsSubsequence(sub, Tail(full))

DedupeKey(c) == c.Source \o c.URL

\* C30: the citation list is a subsequence of the per-result extractions put
\* one after the other, no two of its records have the same key, and
\* deduplicating it once more gives it back unchanged.
C30_DedupeFiltersAndIsIdempotent ==
    synStage = "extracted" =>
        /\ IsSubsequence(citations, Flatten(perResult))
        /\ \A i, j \in 1..Len(citations) :
             DedupeKey(citations[i]) = DedupeKey(citations[j]) => i = j
        /\ dedupeInto(<< >>, {}, citations).all = citations

\* Records were dropped, and more than one was kept.
C30_Witness ==
    /\ synStage = "extracted"
    /\ Len(citations) >= 2
    /\ Len(citations) < Len(Flatten(perResult))


(***************************************************************************)
(* The research goroutines lock by lock: every Lock, every statement of    *)
(* addUsage and every read of the Progress literal is a step of its own,   *)
(* and the dashboard's refresh loop takes the dashboard's lock at any      *)
(* time.                                                                   *)
(***************************************************************************)
\* Where a goroutine waits for d.mu and for tt.mu, and where it is once it
\* holds the lock.
InDashboard ==
    [ at \in {"start", "failing", "built", "stored"} |->
        CASE at = "start" -> "d:running"
          [] at = "failing" -> "d:failed"
          [] at = "built" -> "d:progress"
          [] at = "stored" -> "d:completed" ]

InTracker ==
    [ at \in {"check", "usage"} |->
        CASE at = "check" -> "tt:check"
          [] at = "usage" -> "tt:tokens" ]

\* One agent in two variations, live, without and with a token limit.
LockConfigs ==
    { [ DemoMode |-> FALSE, ModelKnown |-> TRUE, TokenLimit |-> limit,
        CostLimit |-> 0, Intensity |-> 1, BestOfN |-> 2 ] : limit \in {0, 100} }

LockInit ==
    /\ config \in LockConfigs
    /\ agents = CreateAgents(config.Intensity)
    /\ phase = "research"
    /\ pc = [ u \in Units |-> "start" ]
    /\ groupErr = NoError
    /\ results = << >>
    /\ completed = 0
    /\ result = [ u \in Units |-> NoResult ]
    /\ percentage = [ u \in Units |-> <<0, 1>> ]
    /\ snap = [ u \in Units |-> NoProgress ]
    /\ totalTokens = 0
    /\ totalCost = 0
    /\ agentTokens = << >>
    /\ agentStatuses = << >>
    /\ progress = NoProgress
    /\ lastCheck = NoCheck
    /\ SynIdle
    /\ RunIdle

\* d.mu.Lock() at the head of UpdateAgent and UpdateProgress.
LockDashboard(u) ==
    /\ pc[u] \in DOMAIN InDashboard
    /\ locks.d = Free
    /\ locks' = [locks EXCEPT !.d = u]
    /\ pc' = [pc EXCEPT ![u] = InDashboard[pc[u]]]
    /\ UNCHANGED << config, agents, phase, groupErr, results, completed,
                    result, percentage, snap, totalTokens, totalCost,
                    agentTokens, agentStatuses, progress, lastCheck,
                    synStage, synResults, selected, perResult, citations,
                    calls, runErr, written, essay, atLimit >>

\* tt.mu.Lock() at the head of exceedsLimits and addUsage.
LockTracker(u) ==
    /\ pc[u] \in DOMAIN InTracker
    /\ locks.tt = Free
    /\ locks' = [locks EXCEPT !.tt = u]
    /\ pc' = [pc EXCEPT ![u] = InTracker[pc[u]]]
    /\ UNCHANGED << config, agents, phase, groupErr, results, completed,
                    result, percentage, snap, totalTokens, totalCost,
                    agentTokens, agentStatuses, progress, lastCheck,
                    synStage, synResults, selected, perResult, citations,
                    calls, runErr, written, essay, atLimit >>

\* mu.Lock()
LockResults(u) ==
    /\ pc[u] = "returned"
    /\ locks.mu = Free
    /\ locks' = [locks EXCEPT !.mu = u]
    /\ pc' = [pc EXCEPT ![u] = "mu:append"]
    /\ UNCHANGED << config, agents, phase, groupErr, results, completed,
                    result, percentage, snap, totalTokens, totalCost,
                    agentTokens, agentStatuses, progress, lastCheck,
                    synStage, synResults, selected, perResult, citations,
                    calls, runErr, written, essay, atLimit >>

\* UpdateAgent(agentID, type, "running", 0), up to its deferred Unlock.
UpdateAgentRunning(u) ==
    /\ pc[u] = "d:running"
    /\ UpdateAgent(AgentIDOf(u), agents[u[1]], "running", 0)
    /\ locks' = [locks EXCEPT !.d = Free]
    /\ pc' = [pc EXCEPT ![u] = "check"]
    /\ UNCHANGED << config, agents, phase, groupErr, results, completed,
                    result, percentage, snap, totalTokens, totalCost,
                    agentTokens, progress, lastCheck, synStage, synResults,
                    selected, perResult, citations, calls, runErr, written,
                    essay, atLimit >>

\* exceedsLimits without the deferred Unlock.
ExceedsLimitsKeepsLock(u) ==
    /\ pc[u] = "tt:check"
    /\ IF exceedsLimits
       THEN pc' = [pc EXCEPT ![u] = "skipped"] /\ GoReturn(NoError)
       ELSE pc' = [pc EXCEPT ![u] = "ready"] /\ UNCHANGED groupErr
    /\ UNCHANGED << config, agents, phase, results, completed, result,
                    percentage, snap, totalTokens, totalCost, agentTokens,
                    agentStatuses, progress, lastCheck, synStage, synResults,
                    selected, perResult, citations, calls, runErr, written,
                    essay, atLimit, locks >>

\* exceedsLimits answers and unlocks; on true the goroutine returns nil.
ExceedsLimitsReturns(u) ==
    /\ pc[u] = "tt:check"
    /\ locks' = [locks EXCEPT !.tt = Free]
    /\ IF exceedsLimits
       THEN pc' = [pc EXCEPT ![u] = "skipped"] /\ GoReturn(NoError)
       ELSE pc' = [pc EXCEPT ![u] = "ready"] /\ UNCHANGED groupErr
    /\ UNCHANGED << config, agents, phase, results, completed, result,
                    percentage, snap, totalTokens, totalCost, agentTokens,
                    agentStatuses, progress, lastCheck, synStage, synResults,
                    selected, perResult, citations, calls, runErr, written,
                    essay, atLimit >>

\* runAgent: the MessageRequest is sent.
RunAgent(u) ==
    /\ pc[u] = "ready"
    /\ calls' = [calls EXCEPT ![u] = @ + 1]
    /\ pc' = [pc EXCEPT ![u] = "calling"]
    /\ UNCHANGED << config, agents, phase, groupErr, results, completed,
                    result, percentage, snap, totalTokens, totalCost,
                    agentTokens, agentStatuses, progress, lastCheck,
                    synStage, synResults, selected, perResult, citations,
                    runErr, written, essay, atLimit, locks >>

\* The response arrives and estimateTokenUsage gives tokensUsed.
ResponseArrives(u) ==
    /\ pc[u] = "calling"
    /\ \E tokens \in Usages :
         LET tokensUsed == estimateTokenUsage(tokens) IN
         result' = [result EXCEPT ![u] =
                      [ AgentID |-> AgentIDOf(u), AgentType |-> agents[u[1]],
                        Tokens |-> tokensUsed.TotalTokens, Cost |-> tokensUsed.Cost ]]
    /\ pc' = [pc EXCEPT ![u] = "usage"]
    /\ UNCHANGED << config, agents, phase, groupErr, results, completed,
                    percentage, snap, totalTokens, totalCost, agentTokens,
                    agentStatuses, progress, lastCheck, synStage, synResults,
                    selected, perResult, citations, calls, runErr, written,
                    essay, atLimit, locks >>

\* The request fails: runAgent returns the error.
RequestFails(u) ==
    /\ pc[u] = "calling"
    /\ pc' = [pc EXCEPT ![u] = "failing"]
    /\ UNCHANGED << config, agents, phase, groupErr, results, completed,
                    result, percentage, snap, totalTokens, totalCost,
                    agentTokens, agentStatuses, progress, lastCheck,
                    synStage, synResults, selected, perResult, citations,
                    calls, runErr, written, essay, atLimit, locks >>

\* addUsage: tt.totalTokens += usage.TotalTokens
AddTokens(u) ==
    /\ pc[u] = "tt:tokens"
    /\ totalTokens' = totalTokens + result[u].Tokens
    /\ pc' = [pc EXCEPT ![u] = "tt:agent"]
    /\ UNCHANGED << config, agents, phase, groupErr, results, completed,
                    result, percentage, snap, totalCost, agentTokens,
                    agentStatuses, progress, lastCheck, synStage, synResults,
                    selected, perResult, citations, calls, runErr, written,
                    essay, atLimit, locks >>

\* addUsage: tt.agentTokens[agentID] = usage.TotalTokens
SetAgentTokens(u) ==
    /\ pc[u] = "tt:agent"
    /\ agentTokens' =
         [ id \in DOMAIN agentTokens \cup {AgentIDOf(u)} |->
             IF id = AgentIDOf(u) THEN result[u].Tokens ELSE agentTokens[id] ]
    /\ pc' = [pc EXCEPT ![u] = "tt:cost"]
    /\ UNCHANGED << config, agents, phase, groupErr, results, completed,
                    result, percentage, snap, totalTokens, totalCost,
                    agentStatuses, progress, lastCheck, synStage, synResults,
                    selected, perResult, citations, calls, runErr, written,
                    essay, atLimit, locks >>

\* addUsage: tt.totalCost += usage.Cost, and the deferred Unlock.
AddCost(u) ==
    /\ pc[u] = "tt:cost"
    /\ totalCost' = totalCost + result[u].Cost
    /\ locks' = [locks EXCEPT !.tt = Free]
    /\ pc' = [pc EXCEPT ![u] = "returned"]
    /\ UNCHANGED << config, agents, phase, groupErr, results, completed,
                    result, percentage, snap, totalTokens, agentTokens,
                    agentStatuses, progress, lastCheck, synStage, synResults,
                    selected, perResult, citations, calls, runErr, written,
                    essay, atLimit >>

\* results = append(results, result); completed++; percentage := ...; mu.Unlock()
AppendLocked(u) ==
    /\ pc[u] = "mu:append"
    /\ results' = Append(results, result[u])
    /\ completed' = completed + 1
    /\ percentage' = [percentage EXCEPT ![u] =
                        << (completed + 1) * 60 + 10 * totalAgents, totalAgents >>]
    /\ locks' = [locks EXCEPT !.mu = Free]
    /\ pc' = [pc EXCEPT ![u] = "read:active"]
    /\ UNCHANGED << config, agents, phase, groupErr, result, snap,
                    totalTokens, totalCost, agentTokens, agentStatuses,
                    progress, lastCheck, synStage, synResults, selected,
                    perResult, citations, calls, runErr, written, essay,
                    atLimit >>

\* The Progress literal: Stage, Percentage, ActiveAgents: totalAgents - completed
ReadActive(u) ==
    /\ pc[u] = "read:active"
    /\ snap' = [snap EXCEPT ![u] =
                  [ NoProgress EXCEPT !.Stage = "research",
                                      !.Percentage = percentage[u],
                                      !.ActiveAgents = totalAgents - completed ]]
    /\ pc' = [pc EXCEPT ![u] = "read:completed"]
    /\ UNCHANGED << config, agents, phase, groupErr, results, completed,
                    result, percentage, totalTokens, totalCost, agentTokens,
                    agentStatuses, progress, lastCheck, synStage, synResults,
                    selected, perResult, citations, calls, runErr, written,
                    essay, atLimit, locks >>

\* The Progress literal: CompletedAgents: completed
ReadCompleted(u) ==
    /\ pc[u] = "read:completed"
    /\ snap' = [snap EXCEPT ![u].CompletedAgents = completed]
    /\ pc' = [pc EXCEPT ![u] = "read:tokens"]
    /\ UNCHANGED << config, agents, phase, groupErr, results, completed,
                    result, percentage, totalTokens, totalCost, agentTokens,
                    agentStatuses, progress, lastCheck, synStage, synResults,
                    selected, perResult, citations, calls, runErr, written,
                    essay, atLimit, locks >>

\* The Progress literal: TokensUsed: o.tokenTracker.totalTokens
ReadTokens(u) ==
    /\ pc[u] = "read:tokens"
    /\ snap' = [snap EXCEPT ![u].TokensUsed = totalTokens]
    /\ pc' = [pc EXCEPT ![u] = "read:cost"]
    /\ UNCHANGED << config, agents, phase, groupErr, results, completed,
                    result, percentage, totalTokens, totalCost, agentTokens,
                    agentStatuses, progress, lastCheck, synStage, synResults,
                    selected, perResult, citations, calls, runErr, written,
                    essay, atLimit, locks >>

\* The Progress literal: EstimatedCost: o.tokenTracker.totalCost
ReadCost(u) ==
    /\ pc[u] = "read:cost"
    /\ snap' = [snap EXCEPT ![u].EstimatedCost = totalCost]
    /\ pc' = [pc EXCEPT ![u] = "built"]
    /\ UNCHANGED << config, agents, phase, groupErr, results, completed,
                    result, percentage, totalTokens, totalCost, agentTokens,
                    agentStatuses, progress, lastCheck, synStage, synResults,
                    selected, perResult, citations, calls, runErr, written,
                    essay, atLimit, locks >>

\* UpdateProgress: d.progress = progress, and the deferred Unlock.
UpdateProgressLocked(u) ==
    /\ pc[u] = "d:progress"
    /\ UpdateProgress(snap[u])
    /\ locks' = [locks EXCEPT !.d = Free]
    /\ pc' = [pc EXCEPT ![u] = "stored"]
    /\ UNCHANGED << config, agents, phase, groupErr, results, completed,
                    result, percentage, snap, totalTokens, totalCost,
                    agentTokens, agentStatuses, lastCheck, synStage,
                    synResults, selected, perResult, citations, calls,
                    runErr, written, essay, atLimit >>

\* UpdateAgent(agentID, type, "completed", tokens); return nil
UpdateAgentCompleted(u) ==
    /\ pc[u] = "d:completed"
    /\ UpdateAgent(AgentIDOf(u), agents[u[1]], "completed", result[u].Tokens)
    /\ locks' = [locks EXCEPT !.d = Free]
    /\ GoReturn(NoError)
    /\ pc' = [pc EXCEPT ![u] = "completed"]
    /\ UNCHANGED << config, agents, phase, results, completed, result,
                    percentage, snap, totalTokens, totalCost, agentTokens,
                    progress, lastCheck, synStage, synResults, selected,
                    perResult, citations, calls, runErr, written, essay,
                    atLimit >>

\* UpdateAgent(agentID, type, "failed", 0); return nil
UpdateAgentFailed(u) ==
    /\ pc[u] = "d:failed"
    /\ UpdateAgent(AgentIDOf(u), agents[u[1]], "failed", 0)
    /\ locks' = [locks EXCEPT !.d = Free]
    /\ GoReturn(FailReturn)
    /\ pc' = [pc EXCEPT ![u] = "failed"]
    /\ UNCHANGED << config, agents, phase, results, completed, result,
                    percentage, snap, totalTokens, totalCost, agentTokens,
                    progress, lastCheck, synStage, synResults, selected,
                    perResult, citations, calls, runErr, written, essay,
                    atLimit >>

\* refreshLoop: a tick, and render takes d.mu.
RenderStarts ==
    /\ phase = "research"
    /\ locks.d = Free
    /\ locks' = [locks EXCEPT !.d = Render]
    /\ UNCHANGED << config, agents, phase, pc, groupErr, results, completed,
                    result, percentage, snap, totalTokens, totalCost,
                    agentTokens, agentStatuses, progress, lastCheck,
                    synStage, synResults, selected, perResult, citations,
                    calls, runErr, written, essay, atLimit >>

\* render has printed the dashboard; its deferred Unlock.
RenderEnds ==
    /\ locks.d = Render
    /\ locks' = [locks EXCEPT !.d = Free]
    /\ UNCHANGED << config, agents, phase, pc, groupErr, results, completed,
                    result, percentage, snap, totalTokens, totalCost,
                    agentTokens, agentStatuses, progress, lastCheck,
                    synStage, synResults, selected, perResult, citations,
                    calls, runErr, written, essay, atLimit >>

\* g.Wait() returns: every goroutine has returned.
WaitReturns ==
    /\ phase = "research" /\ AllReturned
    /\ IF groupErr # NoError
       THEN /\ phase' = "failed"
            /\ runErr' = << "research phase failed", groupErr >>
       ELSE /\ phase' = "synthesis"
            /\ UNCHANGED runErr
    /\ UNCHANGED << config, agents, pc, groupErr, results, completed, result,
                    percentage, snap, totalTokens, totalCost, agentTokens,
                    agentStatuses, progress, lastCheck, synStage, synResults,
                    selected, perResult, citations, calls, written, essay,
                    atLimit, locks >>

\* What one goroutine can do next.
LockStep(u) ==
    \/ LockDashboard(u)
    \/ LockTracker(u)
    \/ LockResults(u)
    \/ UpdateAgentRunning(u)
    \/ ExceedsLimitsReturns(u)
    \/ RunAgent(u)
    \/ ResponseArrives(u)
    \/ RequestFails(u)
    \/ AddTokens(u)
    \/ SetAgentTokens(u)
    \/ AddCost(u)
    \/ AppendLocked(u)
    \/ ReadActive(u)
    \/ ReadCompleted(u)
    \/ ReadTokens(u)
    \/ ReadCost(u)
    \/ UpdateProgressLocked(u)
    \/ UpdateAgentCompleted(u)
    \/ UpdateAgentFailed(u)

LockNext ==
    \/ \E u \in Units : LockStep(u)
    \/ RenderStarts
    \/ RenderEnds
    \/ WaitReturns

SpecLocks == LockInit /\ [][LockNext]_vars


(***************************************************************************)
(* The same goroutines under fair scheduling: a goroutine that can take a  *)
(* step again and again takes one (the scheduler runs every runnable       *)
(* goroutine, and a mutex in starvation mode is handed to its longest      *)
(* waiter), every request is answered or fails, render returns, and        *)
(* g.Wait() returns once it can.                                           *)
(***************************************************************************)
\* The goroutines of LockConfigs.
LockUnits == { <<1, 0>>, <<1, 1>> }

LockFairness ==
    /\ \A u \in LockUnits : SF_vars(u \in Units /\ LockStep(u))
    /\ WF_vars(RenderEnds)
    /\ WF_vars(WaitReturns)

SpecLive == LockInit /\ [][LockNext]_vars /\ LockFairness

\* C29: under fair scheduling, and with every request answered or failed,
\* every launched unit ends completed, failed or skipped and g.Wait()
\* returns; no unit waits forever for mu, for the tracker's lock or for the
\* dashboard's lock.
C29_ResearchPhaseTerminates ==
    <>(phase # "research" /\ AllReturned /\ locks.mu = Free /\ locks.tt = Free)

\* One goroutine waits for the tracker's lock while the other is inside
\* addUsage, and render holds the dashboard's lock.
C29_Witness ==
    \E u, v \in Units :
        /\ u # v
        /\ pc[u] \in DOMAIN InTracker
        /\ pc[v] = "tt:agent"
        /\ locks.tt = v
        /\ locks.d = Render

\* C25: while the research goroutines run, every read and every write of
\* the tracker's counters is made by the goroutine that holds the tracker's
\* lock, the reads that fill TokensUsed and EstimatedCost of a progress
\* snapshot included.
C25_CountersAccessedUnderLock ==
    \A u \in Units :
        pc[u] \in {"tt:check", "tt:tokens", "tt:agent", "tt:cost", "read:tokens", "read:cost"}
            => locks.tt = u

=============================================================================
